---- MODULE Spec2Model ----
(***************************************************************************)
(* Booking / payment ledger, report access gate and OTP verifier of the    *)
(* pathology-lab portal (server/routes.ts over shared/schema.ts).          *)
(*                                                                         *)
(* The database is the state: one function per table, from the ids of the  *)
(* rows that exist to the rows.  Every HTTP handler is one action; its     *)
(* answer is left in resp (and, for the report listing, in listing).       *)
(* server/storage.ts is not part of the sources at hand: the storage calls *)
(* are modelled from the specification's account of the storage layer.     *)
(***************************************************************************)
EXTENDS Integers, FiniteSets, Sequences, TLC

VARIABLES
    bookings,   \* table bookings: id -> row
    results,    \* table results:  id -> row
    reports,    \* table reports:  id -> row
    patients,   \* table patients: id -> row
    otps,       \* table otps:     id -> row
    issued,     \* the number of otps rows ever inserted
    outbox,     \* the codes handed out, by mail (sent) or in the server log (logged), in order
    now,        \* the server clock (Date.now())
    resp,       \* the last HTTP response, with the request it answers
    listing,    \* body of the last GET /api/patient/reports: report id -> entry
    parameterInputs, \* the parameter rows of the admin's report form (useState)
    requests    \* the requests that await a storage call or were answered: the
                \* locals of the handler and, once answered, the status

vars == <<bookings, results, reports, patients, otps, issued, outbox, now, resp, listing,
          parameterInputs, requests>>

----------------------------------------------------------------------------
(* Values *)

NULL == "null"          \* null / undefined / absent from the request body
NoTime == 0 - 1         \* a null timestamp column

\* JavaScript falsiness of a string-or-absent value: !x
Falsy(x) == x \in {NULL, ""}

\* testIds absent from the body (an array, even an empty one, is truthy)
NoList == {NULL}

Patients == {"p1", "p2"}
Admins == {"a1", "a2"}
Tests == {"t1", "t2"}

\* bounds of the model
MaxPayBookings == 1     \* bookings created in a run of the payment ledger
MaxGateBookings == 2    \* bookings in a run of the report gate, the first one there from the start
MaxReports == 3         \* reports in a run of the report gate, the first two there from the start
MaxTime == 2            \* minutes the clock of the payment ledger runs
MaxOtps == 2            \* one-time codes issued in a run of the verifier
MaxOtpTime == 10        \* minutes the clock of the verifier runs
MaxAuthOtps == 2        \* one-time codes issued in a run of the credentials
MaxAuthTime == 10       \* minutes the clock of the credentials runs
MaxLoginOtps == 2       \* one-time codes issued in a run of the login
MaxAdminReports == 1    \* reports generated in a run of the back office
MaxBookBookings == 2    \* bookings created in a run of the booking desk
MaxAdminTime == 1       \* minutes the clock of the back office runs
MaxRegPatients == 2     \* patients created in a run of the registry
MaxRegOtps == 2         \* one-time codes issued in a run of the registry
MaxMailPatients == 2    \* patients registered in a run of the mail room
MaxMailOtps == 3        \* one-time codes issued in a run of the mail room
MaxRaceTime == 2        \* minutes the clock of the verification desk runs
MaxRangeLen == 4        \* characters of a normal range expression of the report form
MaxValueLen == 2        \* characters of a value typed into the report form

BookingIdSeq == <<"b1", "b2", "b3", "b4", "b5">>
ReportIdSeq == <<"r1", "r2", "r3", "r4", "r5">>
ResultIdSeq == <<"res1", "res2", "res3", "res4", "res5">>
OtpIdSeq == <<"o1", "o2", "o3", "o4", "o5">>

\* gen_random_uuid(): an id no row of the table has
FreshId(table, idSeq) == idSeq[Cardinality(DOMAIN table) + 1]

\* shared/schema.ts
bookingStatuses == {"pending", "collected", "processing", "report_ready", "delivered"}
paymentStatuses == {"pending", "paid_unverified", "verified", "cash_on_delivery", "pay_at_lab"}
paymentMethods == {"upi", "debit_card", "credit_card", "net_banking", "wallet",
                   "bank_transfer", "cash_on_delivery", "pay_at_lab"}

----------------------------------------------------------------------------
(* Authentication middleware *)

NoToken == [kind |-> "none", id |-> NULL, type |-> NULL]
BadToken == [kind |-> "invalid", id |-> NULL, type |-> NULL]
Jwt(id, type) == [kind |-> "jwt", id |-> id, type |-> type]

PatientTokens == {Jwt(p, "patient") : p \in Patients}
AdminTokens == {Jwt(a, "admin") : a \in Admins}
AuthTokens == {NoToken, BadToken} \cup PatientTokens \cup AdminTokens

\* authenticateToken: 401 without a token, 403 when jwt.verify throws, else next()
authenticateToken(token) ==
    IF token.kind = "none" THEN 401
    ELSE IF token.kind = "invalid" THEN 403
    ELSE 200

\* (mutant: any decoded user passes)
mutAdminOnly(user) == 200

\* adminOnly: 403 unless the decoded user is an admin, else next()
adminOnly(user) == IF user.type # "admin" THEN 403 ELSE 200

\* authenticateToken, adminOnly in sequence
adminGuard(token) ==
    IF authenticateToken(token) # 200 THEN authenticateToken(token)
    ELSE adminOnly(token)

----------------------------------------------------------------------------
(* Responses *)

\* op: the handler; status, msg: the answer; id: the booking, report token or
\* email the request names; user: the id in the caller's JWT; code: the one-time
\* code presented; token: the session token the answer carries;
\* requiresVerification, email: those fields of the answer's body
Response(op, status, msg, id, user) ==
    [op |-> op, status |-> status, msg |-> msg, id |-> id, user |-> user,
     code |-> NULL, token |-> NoToken, requiresVerification |-> FALSE, email |-> NULL]

NoResponse == Response("none", 0, "", NULL, NULL)
NoListing == [r \in {} |-> NULL]
NoRequests == [q \in {} |-> NULL]

Reply(r) == resp' = r /\ listing' = NoListing

----------------------------------------------------------------------------
(* POST /api/bookings *)

\* the payment status a new booking gets
\* (mutant: the payment id alone counts as the gateway's proof)
mutCreatePaymentStatus(paymentMethod, razorpayOrderId, razorpayPaymentId) ==
    IF paymentMethod \in {"cash_on_delivery", "pay_at_lab"} THEN paymentMethod
    ELSE IF ~Falsy(razorpayPaymentId) THEN "verified"
    ELSE "paid_unverified"

CreatePaymentStatus(paymentMethod, razorpayOrderId, razorpayPaymentId) ==
    LET isCashPayment == paymentMethod = "cash_on_delivery" \/ paymentMethod = "pay_at_lab"
        isRazorpayVerified == ~Falsy(razorpayPaymentId) /\ ~Falsy(razorpayOrderId)
    IN  IF isCashPayment THEN paymentMethod
        ELSE IF isRazorpayVerified THEN "verified" ELSE "paid_unverified"

\* storage.createBooking: insert the row under a fresh id, the columns the
\* handler does not give take their defaults
createBooking(id, row) ==
    bookings' = bookings @@ (id :> [row EXCEPT !.paymentVerifiedAt = NoTime,
                                              !.paymentVerifiedBy = NULL])

CreateBooking(body) ==
    /\ IF Falsy(body.phone) \/ body.testIds = NoList \/ Falsy(body.type) \/ Falsy(body.slot)
       THEN /\ Reply(Response("createBooking", 400, "Missing required fields", NULL, NULL))
            /\ UNCHANGED bookings
       ELSE IF Falsy(body.paymentMethod)
       THEN /\ Reply(Response("createBooking", 400, "Payment method is required", NULL, NULL))
            /\ UNCHANGED bookings
       ELSE LET id == FreshId(bookings, BookingIdSeq)
                paymentStatus == CreatePaymentStatus(body.paymentMethod,
                                     body.razorpayOrderId, body.razorpayPaymentId)
            IN  /\ createBooking(id,
                      [patientId |-> IF Falsy(body.patientId) THEN NULL ELSE body.patientId,
                       guestName |-> IF Falsy(body.guestName) THEN NULL ELSE body.guestName,
                       phone |-> body.phone,
                       testIds |-> body.testIds,
                       type |-> body.type,
                       slot |-> body.slot,
                       status |-> "pending",
                       paymentMethod |-> body.paymentMethod,
                       paymentStatus |-> paymentStatus,
                       transactionId |-> IF Falsy(body.transactionId) THEN NULL
                                         ELSE body.transactionId,
                       razorpayOrderId |-> IF Falsy(body.razorpayOrderId) THEN NULL
                                           ELSE body.razorpayOrderId,
                       razorpayPaymentId |-> IF Falsy(body.razorpayPaymentId) THEN NULL
                                             ELSE body.razorpayPaymentId,
                       amountPaid |-> IF Falsy(body.amountPaid) THEN NULL ELSE body.amountPaid,
                       paymentDate |-> now,
                       paymentVerifiedAt |-> NoTime,
                       paymentVerifiedBy |-> NULL])
                /\ Reply(Response("createBooking", 200, "", id, NULL))
    /\ UNCHANGED <<results, reports, patients, otps, issued, outbox, now, parameterInputs, requests>>

----------------------------------------------------------------------------
(* PATCH /api/admin/bookings/:id/status *)

\* storage.updateBookingStatus: set the status column of the row, if any
updateBookingStatus(id, status) ==
    bookings' = [bookings EXCEPT ![id].status = status]

\* (mutant: the update also puts the payment back to the column's default)
mutUpdateStatus(token, id, status) ==
    /\ IF adminGuard(token) # 200
       THEN /\ Reply(Response("updateStatus", adminGuard(token), "", id, token.id))
            /\ UNCHANGED bookings
       ELSE IF id \notin DOMAIN bookings
       THEN /\ Reply(Response("updateStatus", 404, "Booking not found", id, token.id))
            /\ UNCHANGED bookings
       ELSE /\ bookings' = [bookings EXCEPT ![id].status = status,
                                            ![id].paymentStatus = "pending"]
            /\ Reply(Response("updateStatus", 200, "", id, token.id))
    /\ UNCHANGED <<results, reports, patients, otps, issued, outbox, now, parameterInputs, requests>>

UpdateStatus(token, id, status) ==
    /\ IF adminGuard(token) # 200
       THEN /\ Reply(Response("updateStatus", adminGuard(token), "", id, token.id))
            /\ UNCHANGED bookings
       ELSE IF id \notin DOMAIN bookings
       THEN /\ Reply(Response("updateStatus", 404, "Booking not found", id, token.id))
            /\ UNCHANGED bookings
       ELSE /\ updateBookingStatus(id, status)
            /\ Reply(Response("updateStatus", 200, "", id, token.id))
    /\ UNCHANGED <<results, reports, patients, otps, issued, outbox, now, parameterInputs, requests>>

----------------------------------------------------------------------------
(* PATCH /api/patient/bookings/:id/payment *)

\* the payment status a patient-submitted payment gets
\* (mutant: a non-cash payment is taken as settled)
mutPatientPaymentStatus(paymentMethod) ==
    IF paymentMethod \in {"cash_on_delivery", "pay_at_lab"} THEN paymentMethod
    ELSE "verified"

PatientPaymentStatus(paymentMethod) ==
    LET isCashPayment == paymentMethod = "cash_on_delivery" \/ paymentMethod = "pay_at_lab"
    IN  IF isCashPayment THEN paymentMethod ELSE "paid_unverified"

\* the ownership test of the handler
\* (mutant: a guest booking belongs to whoever asks)
mutOwnsBooking(booking, user) == booking.patientId \in {user.id, NULL}

OwnsBooking(booking, user) == booking.patientId = user.id

\* storage.updateBookingPayment: set the given columns; an undefined
\* transactionId leaves the column as it is
updateBookingPayment(id, paymentMethod, paymentStatus, transactionId, amountPaid, paymentDate) ==
    bookings' = [bookings EXCEPT
                    ![id].paymentMethod = paymentMethod,
                    ![id].paymentStatus = paymentStatus,
                    ![id].transactionId = IF transactionId = NULL THEN @ ELSE transactionId,
                    ![id].amountPaid = amountPaid,
                    ![id].paymentDate = paymentDate]

RecordPatientPayment(token, id, body) ==
    /\ IF authenticateToken(token) # 200
       THEN /\ Reply(Response("recordPatientPayment", authenticateToken(token), "", id, token.id))
            /\ UNCHANGED bookings
       ELSE IF Falsy(body.paymentMethod) \/ Falsy(body.amountPaid)
       THEN /\ Reply(Response("recordPatientPayment", 400,
                              "Payment method and amount are required", id, token.id))
            /\ UNCHANGED bookings
       ELSE IF id \notin DOMAIN bookings
       THEN /\ Reply(Response("recordPatientPayment", 404, "Booking not found", id, token.id))
            /\ UNCHANGED bookings
       ELSE IF ~OwnsBooking(bookings[id], token)
       THEN /\ Reply(Response("recordPatientPayment", 403, "Unauthorized", id, token.id))
            /\ UNCHANGED bookings
       ELSE /\ updateBookingPayment(id, body.paymentMethod,
                                    PatientPaymentStatus(body.paymentMethod),
                                    IF Falsy(body.transactionId) THEN NULL
                                    ELSE body.transactionId,
                                    body.amountPaid, now)
            /\ Reply(Response("recordPatientPayment", 200, "", id, token.id))
    /\ UNCHANGED <<results, reports, patients, otps, issued, outbox, now, parameterInputs, requests>>

----------------------------------------------------------------------------
(* PATCH /api/admin/bookings/:id/verify-payment *)

\* the state the handler requires of the booking
\* (mutants: a verified booking is verified again; only a verified booking is refused)
mutAwaitsVerification(booking) == booking.paymentStatus \in {"paid_unverified", "verified"}

mutAwaitsVerificationCash(booking) == booking.paymentStatus # "verified"

AwaitsVerification(booking) == booking.paymentStatus = "paid_unverified"

\* storage.verifyBookingPayment: mark the row verified, by whom and when
verifyBookingPayment(id, adminId) ==
    bookings' = [bookings EXCEPT
                    ![id].paymentStatus = "verified",
                    ![id].paymentVerifiedAt = now,
                    ![id].paymentVerifiedBy = adminId]

VerifyPayment(token, id) ==
    /\ IF adminGuard(token) # 200
       THEN /\ Reply(Response("verifyPayment", adminGuard(token), "", id, token.id))
            /\ UNCHANGED bookings
       ELSE IF id \notin DOMAIN bookings
       THEN /\ Reply(Response("verifyPayment", 404, "Booking not found", id, token.id))
            /\ UNCHANGED bookings
       ELSE IF ~AwaitsVerification(bookings[id])
       THEN /\ Reply(Response("verifyPayment", 400,
                              "Payment is not pending verification", id, token.id))
            /\ UNCHANGED bookings
       ELSE /\ verifyBookingPayment(id, token.id)
            /\ Reply(Response("verifyPayment", 200, "", id, token.id))
    /\ UNCHANGED <<results, reports, patients, otps, issued, outbox, now, parameterInputs, requests>>

\* The same handler as its storage calls interleave with those of other
\* requests: the handler runs up to `await storage.getBooking(id)`, which
\* reads the row, and resumes later with what it read

Answered(op, status, user) == [pc |-> "answered", op |-> op, status |-> status, user |-> user]

\* up to and including storage.getBooking
VerifyPaymentRead(q, token, id) ==
    /\ q \notin DOMAIN requests
    /\ IF adminGuard(token) # 200
       THEN /\ Reply(Response("verifyPayment", adminGuard(token), "", id, token.id))
            /\ requests' = requests @@ (q :> Answered("verifyPayment", adminGuard(token),
                                                      token.id))
       ELSE IF id \notin DOMAIN bookings
       THEN /\ Reply(Response("verifyPayment", 404, "Booking not found", id, token.id))
            /\ requests' = requests @@ (q :> Answered("verifyPayment", 404, token.id))
       ELSE /\ requests' = requests @@
                  (q :> [pc |-> "read", op |-> "verifyPayment", status |-> 0,
                         user |-> token.id, id |-> id, booking |-> bookings[id]])
            /\ UNCHANGED <<resp, listing>>
    /\ UNCHANGED <<bookings, results, reports, patients, otps, issued, outbox, now,
                   parameterInputs>>

\* from the test of what was read to the answer, storage.verifyBookingPayment included
VerifyPaymentWrite(q) ==
    /\ q \in DOMAIN requests
    /\ requests[q].pc = "read" /\ requests[q].op = "verifyPayment"
    /\ LET id == requests[q].id
           user == requests[q].user
       IN  IF ~AwaitsVerification(requests[q].booking)
           THEN /\ Reply(Response("verifyPayment", 400,
                                  "Payment is not pending verification", id, user))
                /\ requests' = [requests EXCEPT ![q] = Answered("verifyPayment", 400, user)]
                /\ UNCHANGED bookings
           ELSE /\ verifyBookingPayment(id, user)
                /\ Reply(Response("verifyPayment", 200, "", id, user))
                /\ requests' = [requests EXCEPT ![q] = Answered("verifyPayment", 200, user)]
    /\ UNCHANGED <<results, reports, patients, otps, issued, outbox, now, parameterInputs>>

----------------------------------------------------------------------------
(* POST /api/admin/reports/generate *)

\* (mutant: every report gets the same token)
mutGenerateSecureToken(reportId) == "token_r1"

\* generateSecureToken: randomBytes(32) in hex, a token no report has
generateSecureToken(reportId) == "token_" \o reportId

\* storage.createResult and storage.createReport: insert the rows under fresh
\* ids; a report the handler creates has no booking
createResult(id, row) == results' = results @@ (id :> row)

createReport(id, row) == reports' = reports @@ (id :> [row EXCEPT !.bookingId = NULL])

GenerateReport(token, body) ==
    /\ IF adminGuard(token) # 200
       THEN /\ Reply(Response("generateReport", adminGuard(token), "", NULL, token.id))
            /\ UNCHANGED <<results, reports>>
       ELSE IF Falsy(body.patientId) \/ Falsy(body.testId) \/ Falsy(body.technician)
               \/ body.parameterResults = NoList
       THEN /\ Reply(Response("generateReport", 400, "Missing required fields", NULL, token.id))
            /\ UNCHANGED <<results, reports>>
       ELSE LET id == FreshId(reports, ReportIdSeq)
                resultId == FreshId(results, ResultIdSeq)
            IN  /\ createResult(resultId,
                      [patientId |-> IF Falsy(body.patientId) THEN NULL ELSE body.patientId,
                       testId |-> body.testId,
                       technician |-> body.technician,
                       referredBy |-> IF Falsy(body.referredBy) THEN NULL ELSE body.referredBy,
                       collectedAt |-> body.collectedAt,
                       parameterResults |-> body.parameterResults])
                /\ createReport(id,
                      [patientId |-> IF Falsy(body.patientId) THEN NULL ELSE body.patientId,
                       resultId |-> resultId,
                       bookingId |-> NULL,
                       pdfPath |-> NULL,
                       secureDownloadToken |-> generateSecureToken(id),
                       generatedAt |-> now])
                /\ Reply(Response("generateReport", 200, "", id, token.id))
    /\ UNCHANGED <<bookings, patients, otps, issued, outbox, now, parameterInputs, requests>>

----------------------------------------------------------------------------
(* GET /api/reports/download/:token *)

\* storage.getReportByToken: the ids of the reports with the token (none or one)
getReportByToken(token) == {r \in DOMAIN reports : reports[r].secureDownloadToken = token}

\* the payment statuses that release a report
\* (mutant: a payment awaiting verification releases it too)
mutAllowedPaymentStatuses == {"verified", "cash_on_delivery", "pay_at_lab", "paid_unverified"}

allowedPaymentStatuses == {"verified", "cash_on_delivery", "pay_at_lab"}

\* status and message of the answer to a download of the report
DownloadOutcome(report) ==
    IF report.bookingId # NULL /\ report.bookingId \notin DOMAIN bookings
    THEN <<403, "Unable to verify payment status. Please contact support.">>
    ELSE IF report.bookingId # NULL
            /\ bookings[report.bookingId].paymentStatus \notin allowedPaymentStatuses
    THEN <<403, "Payment is not verified. Please complete your payment to access the report.">>
    ELSE <<200, "text/html">>

DownloadReport(token) ==
    /\ IF getReportByToken(token) = {}
       THEN Reply(Response("download", 404, "Report not found or link expired", token, NULL))
       ELSE LET report == reports[CHOOSE r \in getReportByToken(token) : TRUE]
                outcome == DownloadOutcome(report)
            IN  Reply(Response("download", outcome[1], outcome[2], token, NULL))
    /\ UNCHANGED <<bookings, results, reports, patients, otps, issued, outbox, now, parameterInputs, requests>>

----------------------------------------------------------------------------
(* GET /api/patient/reports *)

\* storage.getReportsByPatient, storage.getBookingsByPatient: the rows of the patient
getReportsByPatient(patientId) == {r \in DOMAIN reports : reports[r].patientId = patientId}

getBookingsByPatient(patientId) == {b \in DOMAIN bookings : bookings[b].patientId = patientId}

\* the bookings the handler may take as the report's: among the patient's
\* bookings the report's own, else one whose tests include the result's test
\* (find takes the first in the order the storage returns them, here any), else none
AssociatedBookings(report, patientBookings) ==
    LET own == {b \in patientBookings : b = report.bookingId}
        testId == IF report.resultId \in DOMAIN results
                  THEN results[report.resultId].testId ELSE NULL
        byTest == {b \in patientBookings : testId # NULL /\ testId \in bookings[b].testIds}
    IN  IF own # {} THEN own
        ELSE IF byTest # {} THEN byTest
        ELSE {NULL}

PaymentVerified(associatedBooking) ==
    /\ associatedBooking # NULL
    /\ \/ bookings[associatedBooking].paymentStatus = "verified"
       \/ bookings[associatedBooking].paymentStatus = "cash_on_delivery"
       \/ bookings[associatedBooking].paymentStatus = "pay_at_lab"

\* one entry of the listing
ReportEntry(report, associatedBooking) ==
    [paymentVerified |-> PaymentVerified(associatedBooking),
     paymentStatus |-> IF associatedBooking = NULL THEN "pending"
                       ELSE bookings[associatedBooking].paymentStatus,
     secureDownloadToken |-> IF PaymentVerified(associatedBooking)
                             THEN report.secureDownloadToken ELSE NULL]

ListPatientReports(token) ==
    /\ IF authenticateToken(token) # 200
       THEN Reply(Response("listReports", authenticateToken(token), "", NULL, token.id))
       ELSE LET mine == getReportsByPatient(token.id)
                patientBookings == getBookingsByPatient(token.id)
            IN  \E associated \in [mine -> DOMAIN bookings \cup {NULL}] :
                   /\ \A r \in mine :
                         associated[r] \in AssociatedBookings(reports[r], patientBookings)
                   /\ resp' = Response("listReports", 200, "", NULL, token.id)
                   /\ listing' = [r \in mine |-> ReportEntry(reports[r], associated[r])]
    /\ UNCHANGED <<bookings, results, reports, patients, otps, issued, outbox, now, parameterInputs, requests>>

----------------------------------------------------------------------------
(* One-time codes *)

\* generateOTP: a 6-digit code; two of them stand for all
Codes == {"123456", "654321"}

\* the lifetime of a verification code in minutes: 5 * 60 * 1000 ms
VerificationMinutes == 5

\* storage.createOtp: insert the row under a fresh id, no attempts made yet
createOtp(contact, otp, purpose, expiresAt) ==
    /\ otps' = otps @@ (OtpIdSeq[issued + 1] :>
                          [contact |-> contact, otp |-> otp, purpose |-> purpose,
                           attempts |-> 0, createdAt |-> now, serial |-> issued + 1,
                           expiresAt |-> expiresAt])
    /\ issued' = issued + 1

\* storage.getOtpByContact: the code in force for the contact and purpose, that
\* is the latest issued of those that have not expired (none or one id)
getOtpByContact(contact, purpose) ==
    LET live == {o \in DOMAIN otps : /\ otps[o].contact = contact
                                     /\ otps[o].purpose = purpose
                                     /\ otps[o].expiresAt > now}
    IN  {o \in live : \A other \in live : otps[other].serial <= otps[o].serial}

\* storage.incrementOtpAttempts, storage.deleteOtp
incrementOtpAttempts(table, id) == [table EXCEPT ![id].attempts = @ + 1]

deleteOtp(table, id) == [o \in DOMAIN table \ {id} |-> table[o]]

\* storage.getPatientByEmail: the ids of the patients with the email
getPatientByEmail(email) == {p \in DOMAIN patients : patients[p].email = email}

\* storage.updatePatientEmailVerified
updatePatientEmailVerified(id, verified) ==
    patients' = [patients EXCEPT ![id].emailVerified = verified]

\* the mail transport of a request: no credentials in the environment, a
\* transporter.sendMail that resolves, one that rejects
Transports == {"unconfigured", "delivers", "fails"}

\* (mutant: no catch around transporter.sendMail)
mutSendOtpEmail(transport) ==
    IF transport = "unconfigured" THEN "logged"
    ELSE IF transport = "fails" THEN "thrown"
    ELSE "sent"

\* sendOtpEmail, as its caller sees it: without credentials the code is logged
\* ([DEV MODE]); a rejected sendMail is caught and the code logged
\* ([FALLBACK]); in all three cases the function returns true
sendOtpEmail(transport) ==
    IF transport = "unconfigured" THEN "logged"
    ELSE IF transport = "fails" THEN "logged"
    ELSE "sent"

\* the code reaches the contact by mail or through the server log unless
\* sendOtpEmail threw
handOut(mail, to, otp, purpose) ==
    outbox' = IF mail = "thrown" THEN outbox
              ELSE Append(outbox, [contact |-> to, otp |-> otp, purpose |-> purpose,
                                   via |-> mail])

OtpResponse(op, status, msg, email, code, token) ==
    [Response(op, status, msg, email, NULL) EXCEPT !.code = code, !.token = token]

----------------------------------------------------------------------------
(* POST /api/auth/resend-verification *)

ResendVerification(email, otp, transport) ==
    /\ IF Falsy(email)
       THEN /\ Reply(Response("resendVerification", 400, "Email is required", email, NULL))
            /\ UNCHANGED <<otps, issued, outbox>>
       ELSE IF getPatientByEmail(email) = {}
       THEN /\ Reply(Response("resendVerification", 404, "Email not found", email, NULL))
            /\ UNCHANGED <<otps, issued, outbox>>
       ELSE \E p \in getPatientByEmail(email) :
               IF patients[p].emailVerified
               THEN /\ Reply(Response("resendVerification", 400, "Email already verified",
                                      email, NULL))
                    /\ UNCHANGED <<otps, issued, outbox>>
               ELSE LET mail == sendOtpEmail(transport)
                    IN  /\ createOtp(email, otp, "email_verification", now + VerificationMinutes)
                        /\ handOut(mail, email, otp, "email_verification")
                        /\ IF mail = "thrown"
                           THEN Reply(Response("resendVerification", 500,
                                               "Failed to resend verification", email, NULL))
                           ELSE Reply(Response("resendVerification", 200,
                                               "Verification OTP sent successfully", email, NULL))
    /\ UNCHANGED <<bookings, results, reports, patients, now, parameterInputs, requests>>

----------------------------------------------------------------------------
(* POST /api/auth/verify-email *)

\* the attempts after which the handler no longer compares the code
MaxAttempts == 3

\* (mutant: one attempt more is allowed)
mutAttemptsExceeded(otpRecord) == otpRecord.attempts > MaxAttempts

AttemptsExceeded(otpRecord) == otpRecord.attempts >= MaxAttempts

\* the answer to a wrong code, from the attempts made before this one
InvalidOtpMessage(attempts) ==
    LET remainingAttempts == 2 - attempts
    IN  IF remainingAttempts > 0
        THEN "Invalid OTP. " \o ToString(remainingAttempts) \o " attempts remaining."
        ELSE "Invalid OTP. Please request a new OTP."

VerifyEmail(email, otp) ==
    /\ IF Falsy(email) \/ Falsy(otp)
       THEN /\ Reply(OtpResponse("verifyEmail", 400, "Email and OTP are required",
                                 email, otp, NoToken))
            /\ UNCHANGED <<otps, patients>>
       ELSE IF getOtpByContact(email, "email_verification") = {}
       THEN /\ Reply(OtpResponse("verifyEmail", 400,
                        "No verification request found. Please request a new OTP.",
                        email, otp, NoToken))
            /\ UNCHANGED <<otps, patients>>
       ELSE LET id == CHOOSE o \in getOtpByContact(email, "email_verification") : TRUE
                otpRecord == otps[id]
            IN  IF AttemptsExceeded(otpRecord)
                THEN /\ otps' = deleteOtp(otps, id)
                     /\ Reply(OtpResponse("verifyEmail", 400,
                                 "Maximum attempts exceeded. Please request a new OTP.",
                                 email, otp, NoToken))
                     /\ UNCHANGED patients
                ELSE IF otpRecord.otp # otp
                THEN /\ otps' = incrementOtpAttempts(otps, id)
                     /\ Reply(OtpResponse("verifyEmail", 400,
                                 InvalidOtpMessage(otpRecord.attempts), email, otp, NoToken))
                     /\ UNCHANGED patients
                ELSE /\ otps' = deleteOtp(incrementOtpAttempts(otps, id), id)
                     /\ IF getPatientByEmail(email) = {}
                        THEN /\ Reply(OtpResponse("verifyEmail", 404, "Patient not found",
                                                  email, otp, NoToken))
                             /\ UNCHANGED patients
                        ELSE \E p \in getPatientByEmail(email) :
                                /\ updatePatientEmailVerified(p, TRUE)
                                /\ Reply(OtpResponse("verifyEmail", 200,
                                            "Email verified successfully", email, otp,
                                            Jwt(p, "patient")))
    /\ UNCHANGED <<bookings, results, reports, issued, outbox, now, parameterInputs, requests>>

\* The same handler as its storage calls interleave with those of other
\* requests: each await is a storage call of its own, and the handler goes on
\* with the otpRecord that storage.getOtpByContact returned to it

EmailAnswered(status, otpRecord, compared) ==
    [pc |-> "answered", op |-> "verifyEmail", status |-> status, otpRecord |-> otpRecord,
     compared |-> compared]

\* a storage call by id on a row another request deleted changes nothing
incrementIfPresent(table, id) ==
    IF id \in DOMAIN table THEN incrementOtpAttempts(table, id) ELSE table

\* up to and including storage.getOtpByContact
VerifyEmailRead(q, email, otp) ==
    /\ q \notin DOMAIN requests
    /\ IF Falsy(email) \/ Falsy(otp)
       THEN /\ Reply(OtpResponse("verifyEmail", 400, "Email and OTP are required",
                                 email, otp, NoToken))
            /\ requests' = requests @@ (q :> EmailAnswered(400, NULL, FALSE))
       ELSE IF getOtpByContact(email, "email_verification") = {}
       THEN /\ Reply(OtpResponse("verifyEmail", 400,
                        "No verification request found. Please request a new OTP.",
                        email, otp, NoToken))
            /\ requests' = requests @@ (q :> EmailAnswered(400, NULL, FALSE))
       ELSE LET id == CHOOSE o \in getOtpByContact(email, "email_verification") : TRUE
            IN  /\ requests' = requests @@
                      (q :> [pc |-> "read", op |-> "verifyEmail", status |-> 0,
                             email |-> email, otp |-> otp, otpRecord |-> id,
                             read |-> otps[id], compared |-> FALSE])
                /\ UNCHANGED <<resp, listing>>
    /\ UNCHANGED <<bookings, results, reports, patients, otps, issued, outbox, now,
                   parameterInputs>>

\* the test of the attempts read and storage.deleteOtp or storage.incrementOtpAttempts
VerifyEmailIncrement(q) ==
    /\ q \in DOMAIN requests
    /\ requests[q].pc = "read" /\ requests[q].op = "verifyEmail"
    /\ LET id == requests[q].otpRecord
       IN  IF AttemptsExceeded(requests[q].read)
           THEN /\ otps' = deleteOtp(otps, id)
                /\ Reply(OtpResponse("verifyEmail", 400,
                            "Maximum attempts exceeded. Please request a new OTP.",
                            requests[q].email, requests[q].otp, NoToken))
                /\ requests' = [requests EXCEPT ![q] = EmailAnswered(400, id, FALSE)]
           ELSE /\ otps' = incrementIfPresent(otps, id)
                /\ requests' = [requests EXCEPT ![q].pc = "incremented"]
                /\ UNCHANGED <<resp, listing>>
    /\ UNCHANGED <<bookings, results, reports, patients, issued, outbox, now, parameterInputs>>

\* from the comparison of the codes to the answer
VerifyEmailCompare(q) ==
    /\ q \in DOMAIN requests
    /\ requests[q].pc = "incremented" /\ requests[q].op = "verifyEmail"
    /\ LET id == requests[q].otpRecord
           email == requests[q].email
           otp == requests[q].otp
       IN  IF requests[q].read.otp # otp
           THEN /\ Reply(OtpResponse("verifyEmail", 400,
                            InvalidOtpMessage(requests[q].read.attempts), email, otp, NoToken))
                /\ requests' = [requests EXCEPT ![q] = EmailAnswered(400, id, TRUE)]
                /\ UNCHANGED <<otps, patients>>
           ELSE /\ otps' = deleteOtp(otps, id)
                /\ IF getPatientByEmail(email) = {}
                   THEN /\ Reply(OtpResponse("verifyEmail", 404, "Patient not found",
                                             email, otp, NoToken))
                        /\ requests' = [requests EXCEPT ![q] = EmailAnswered(404, id, TRUE)]
                        /\ UNCHANGED patients
                   ELSE \E p \in getPatientByEmail(email) :
                           /\ updatePatientEmailVerified(p, TRUE)
                           /\ Reply(OtpResponse("verifyEmail", 200,
                                       "Email verified successfully", email, otp,
                                       Jwt(p, "patient")))
                           /\ requests' = [requests EXCEPT ![q] = EmailAnswered(200, id, TRUE)]
    /\ UNCHANGED <<bookings, results, reports, issued, outbox, now, parameterInputs>>

----------------------------------------------------------------------------
(* Passwords *)

\* bcrypt.hash(password, 10) and bcrypt.compare(password, hash)
bcryptHash(password) == "$2b$10$" \o password

bcryptCompare(password, hash) == hash = bcryptHash(password)

\* newPassword.length < 6
MinPasswordLength == 6

TooShort(password) == Len(password) < MinPasswordLength

\* storage.getPatientByPhone: the ids of the patients with the phone
getPatientByPhone(phone) == {p \in DOMAIN patients : patients[p].phone = phone}

\* storage.updatePatientPassword
updatePatientPassword(id, hashedPassword) ==
    patients' = [patients EXCEPT ![id].password = hashedPassword]

----------------------------------------------------------------------------
(* storage.verifyOtp(contact, otp, purpose): the verification of a code as  *)
(* the specification gives it: the code in force for the contact and        *)
(* purpose is looked up (none when past expiry); a code that differs counts *)
(* as an attempt and the record goes once the attempts reach the maximum;   *)
(* the record is returned when the code is the one presented.               *)

\* the record returned (none or one id)
verifyOtp(contact, otp, purpose) ==
    {o \in getOtpByContact(contact, purpose) : otps[o].otp = otp}

\* the table after the call
verifyOtpAttempt(contact, otp, purpose) ==
    IF getOtpByContact(contact, purpose) = {} \/ verifyOtp(contact, otp, purpose) # {}
    THEN otps
    ELSE LET id == CHOOSE o \in getOtpByContact(contact, purpose) : TRUE
         IN  IF otps[id].attempts + 1 >= MaxAttempts
             THEN deleteOtp(otps, id)
             ELSE incrementOtpAttempts(otps, id)

----------------------------------------------------------------------------
(* POST /api/auth/request-otp *)

\* console.log(`OTP for ${contact}: ${otp}`)
consoleLogOtp(contact, otp, purpose) ==
    outbox' = Append(outbox, [contact |-> contact, otp |-> otp, purpose |-> purpose,
                              via |-> "logged"])

RequestOtp(contact, purpose, otp) ==
    /\ IF Falsy(contact) \/ Falsy(purpose)
       THEN /\ Reply(Response("requestOtp", 400, "Contact and purpose are required",
                              contact, NULL))
            /\ UNCHANGED <<otps, issued, outbox>>
       ELSE /\ createOtp(contact, otp, purpose, now + VerificationMinutes)
            /\ consoleLogOtp(contact, otp, purpose)
            /\ Reply(OtpResponse("requestOtp", 200, "OTP sent successfully",
                                 contact, otp, NoToken))
    /\ UNCHANGED <<bookings, results, reports, patients, now, parameterInputs, requests>>

----------------------------------------------------------------------------
(* POST /api/auth/verify-otp *)

\* the handler's storage.deleteOtp(otpRecord.id) of the record it accepted
ConsumeOtp(table, otpRecord) == [o \in DOMAIN table \ otpRecord |-> table[o]]

VerifyOtp(contact, otp, purpose) ==
    /\ IF Falsy(contact) \/ Falsy(otp) \/ Falsy(purpose)
       THEN /\ Reply(OtpResponse("verifyOtp", 400, "Contact, OTP, and purpose are required",
                                 contact, otp, NoToken))
            /\ UNCHANGED otps
       ELSE IF verifyOtp(contact, otp, purpose) = {}
       THEN /\ otps' = verifyOtpAttempt(contact, otp, purpose)
            /\ Reply(OtpResponse("verifyOtp", 400, "Invalid or expired OTP",
                                 contact, otp, NoToken))
       ELSE LET byPhone == getPatientByPhone(contact)
                patient == IF byPhone # {} THEN byPhone ELSE getPatientByEmail(contact)
            IN  /\ otps' = ConsumeOtp(verifyOtpAttempt(contact, otp, purpose),
                                      verifyOtp(contact, otp, purpose))
                /\ IF patient = {} /\ purpose = "register"
                   THEN Reply(OtpResponse("verifyOtp", 400,
                                 "Patient not found. Please register first.",
                                 contact, otp, NoToken))
                   ELSE IF patient = {}
                   THEN Reply(OtpResponse("verifyOtp", 400, "Patient not found",
                                          contact, otp, NoToken))
                   ELSE \E p \in patient :
                           Reply(OtpResponse("verifyOtp", 200, "", contact, otp,
                                             Jwt(p, "patient")))
    /\ UNCHANGED <<bookings, results, reports, patients, issued, outbox, now, parameterInputs, requests>>

----------------------------------------------------------------------------
(* POST /api/auth/login-email *)

\* (mutant: the session is opened whether or not the email is verified)
mutEmailVerified(patient) == TRUE

\* the handler's test of the patient's emailVerified flag
EmailVerified(patient) == patient.emailVerified

LoginEmail(email, password) ==
    /\ IF Falsy(email) \/ Falsy(password)
       THEN Reply(Response("loginEmail", 400, "Email and password are required", email, NULL))
       ELSE IF getPatientByEmail(email) = {}
       THEN Reply(Response("loginEmail", 401, "Invalid email or password", email, NULL))
       ELSE \E p \in getPatientByEmail(email) :
               IF Falsy(patients[p].password)
               THEN Reply(Response("loginEmail", 401,
                        "Password not set. Please use forgot password to set one.",
                        email, NULL))
               ELSE IF ~bcryptCompare(password, patients[p].password)
               THEN Reply(Response("loginEmail", 401, "Invalid email or password",
                                   email, NULL))
               ELSE IF ~EmailVerified(patients[p])
               THEN Reply([Response("loginEmail", 403,
                              "Please verify your email before logging in.", email, NULL)
                           EXCEPT !.requiresVerification = TRUE,
                                  !.email = patients[p].email])
               ELSE Reply(OtpResponse("loginEmail", 200, "", email, NULL,
                                      Jwt(p, "patient")))
    /\ UNCHANGED <<bookings, results, reports, patients, otps, issued, outbox, now, parameterInputs, requests>>

----------------------------------------------------------------------------
(* POST /api/auth/forgot-password *)

\* the lifetime of a reset code in minutes: 10 * 60 * 1000 ms
ResetMinutes == 10

\* (mutant: a reset code lives half an hour)
mutResetExpiresAt(issuedAt) == issuedAt + 3 * ResetMinutes

\* expiresAt of a reset code: new Date(Date.now() + 10 * 60 * 1000)
ResetExpiresAt(issuedAt) == issuedAt + ResetMinutes

ResetMessage == "If this email is registered, you will receive a password reset OTP"

\* (mutant: an unknown email is answered as resend-verification answers it)
mutForgotPassword(email, otp, transport) ==
    /\ IF Falsy(email)
       THEN /\ Reply(Response("forgotPassword", 400, "Email is required", email, NULL))
            /\ UNCHANGED <<otps, issued, outbox>>
       ELSE IF getPatientByEmail(email) = {}
       THEN /\ Reply(Response("forgotPassword", 404, "Email not found", email, NULL))
            /\ UNCHANGED <<otps, issued, outbox>>
       ELSE /\ createOtp(email, otp, "password_reset", ResetExpiresAt(now))
            /\ handOut(sendOtpEmail(transport), email, otp, "password_reset")
            /\ Reply(Response("forgotPassword", 200, ResetMessage, email, NULL))
    /\ UNCHANGED <<bookings, results, reports, patients, now, parameterInputs, requests>>

ForgotPassword(email, otp, transport) ==
    /\ IF Falsy(email)
       THEN /\ Reply(Response("forgotPassword", 400, "Email is required", email, NULL))
            /\ UNCHANGED <<otps, issued, outbox>>
       ELSE IF getPatientByEmail(email) = {}
       THEN /\ Reply(Response("forgotPassword", 200, ResetMessage, email, NULL))
            /\ UNCHANGED <<otps, issued, outbox>>
       ELSE LET mail == sendOtpEmail(transport)
            IN  /\ createOtp(email, otp, "password_reset", ResetExpiresAt(now))
                /\ handOut(mail, email, otp, "password_reset")
                /\ IF mail = "thrown"
                   THEN Reply(Response("forgotPassword", 500, "Failed to send reset OTP",
                                       email, NULL))
                   ELSE Reply(Response("forgotPassword", 200, ResetMessage, email, NULL))
    /\ UNCHANGED <<bookings, results, reports, patients, now, parameterInputs, requests>>

----------------------------------------------------------------------------
(* POST /api/auth/reset-password *)

\* the handler's test of what storage.verifyOtp returned: !otpRecord
OtpRejected(otpRecord) == otpRecord = {}

ResetPassword(email, otp, newPassword) ==
    /\ IF Falsy(email) \/ Falsy(otp) \/ Falsy(newPassword)
       THEN /\ Reply(OtpResponse("resetPassword", 400,
                        "Email, OTP, and new password are required", email, otp, NoToken))
            /\ UNCHANGED <<otps, patients>>
       ELSE IF TooShort(newPassword)
       THEN /\ Reply(OtpResponse("resetPassword", 400,
                        "Password must be at least 6 characters", email, otp, NoToken))
            /\ UNCHANGED <<otps, patients>>
       ELSE IF OtpRejected(verifyOtp(email, otp, "password_reset"))
       THEN /\ otps' = verifyOtpAttempt(email, otp, "password_reset")
            /\ Reply(OtpResponse("resetPassword", 400, "Invalid or expired OTP",
                                 email, otp, NoToken))
            /\ UNCHANGED patients
       ELSE /\ otps' = ConsumeOtp(verifyOtpAttempt(email, otp, "password_reset"),
                                  verifyOtp(email, otp, "password_reset"))
            /\ IF getPatientByEmail(email) = {}
               THEN /\ Reply(OtpResponse("resetPassword", 404, "Patient not found",
                                         email, otp, NoToken))
                    /\ UNCHANGED patients
               ELSE \E p \in getPatientByEmail(email) :
                       /\ updatePatientPassword(p, bcryptHash(newPassword))
                       /\ Reply(OtpResponse("resetPassword", 200,
                             "Password reset successful. You can now login with your new password.",
                             email, otp, NoToken))
    /\ UNCHANGED <<bookings, results, reports, issued, outbox, now, parameterInputs, requests>>

----------------------------------------------------------------------------
(* Patient registration *)

PatientIdSeq == <<"p1", "p2", "p3", "p4", "p5">>

\* storage.createPatient: insert the row under a fresh id; emailVerified and
\* firebaseUid take their defaults when the handler does not give them. The
\* patients table has no unique constraint on email or phone
createPatient(id, row) == patients' = patients @@ (id :> row)

NewPatient(email, phone, password, firebaseUid) ==
    [email |-> email, phone |-> phone, password |-> password,
     emailVerified |-> FALSE, firebaseUid |-> firebaseUid]

\* email || null
OrNull(x) == IF Falsy(x) THEN NULL ELSE x

\* /^[^\s@]+@[^\s@]+\.[^\s@]+$/ on the addresses of the model
MalformedEmails == {"user.x.com"}
emailRegex(email) == email \notin MalformedEmails

RegResponse(op, status, msg, email, requiresVerification) ==
    [Response(op, status, msg, email, NULL) EXCEPT
        !.requiresVerification = requiresVerification, !.email = email]

\* POST /api/auth/register
Register(body, otp) ==
    /\ IF Falsy(body.name) \/ Falsy(body.phone)
       THEN /\ Reply(RegResponse("register", 400, "Name and phone are required",
                                 body.email, FALSE))
            /\ UNCHANGED <<patients, otps, issued, outbox>>
       ELSE IF getPatientByPhone(body.phone) # {}
       THEN /\ Reply(RegResponse("register", 400, "Phone number already registered",
                                 body.email, FALSE))
            /\ UNCHANGED <<patients, otps, issued, outbox>>
       ELSE /\ createPatient(FreshId(patients, PatientIdSeq),
                             NewPatient(OrNull(body.email), body.phone, NULL, NULL))
            /\ createOtp(body.phone, otp, "register", now + VerificationMinutes)
            /\ consoleLogOtp(body.phone, otp, "register")
            /\ Reply(RegResponse("register", 200, "Registration successful. OTP sent.",
                                 body.email, FALSE))
    /\ UNCHANGED <<bookings, results, reports, now, parameterInputs, requests>>

\* POST /api/auth/register-email
RegisterEmail(body, otp, transport) ==
    /\ IF Falsy(body.name) \/ Falsy(body.email) \/ Falsy(body.phone) \/ Falsy(body.password)
       THEN /\ Reply(RegResponse("registerEmail", 400,
                                 "Name, email, phone, and password are required",
                                 body.email, FALSE))
            /\ UNCHANGED <<patients, otps, issued, outbox>>
       ELSE IF ~emailRegex(body.email)
       THEN /\ Reply(RegResponse("registerEmail", 400, "Invalid email format",
                                 body.email, FALSE))
            /\ UNCHANGED <<patients, otps, issued, outbox>>
       ELSE IF TooShort(body.password)
       THEN /\ Reply(RegResponse("registerEmail", 400,
                                 "Password must be at least 6 characters", body.email, FALSE))
            /\ UNCHANGED <<patients, otps, issued, outbox>>
       ELSE IF getPatientByEmail(body.email) # {}
       THEN /\ Reply(RegResponse("registerEmail", 400, "Email already registered",
                                 body.email, FALSE))
            /\ UNCHANGED <<patients, otps, issued, outbox>>
       ELSE IF getPatientByPhone(body.phone) # {}
       THEN /\ Reply(RegResponse("registerEmail", 400, "Phone number already registered",
                                 body.email, FALSE))
            /\ UNCHANGED <<patients, otps, issued, outbox>>
       ELSE LET mail == sendOtpEmail(transport)
            IN  /\ createPatient(FreshId(patients, PatientIdSeq),
                                 NewPatient(body.email, body.phone,
                                            bcryptHash(body.password), NULL))
                /\ createOtp(body.email, otp, "email_verification",
                             now + VerificationMinutes)
                /\ handOut(mail, body.email, otp, "email_verification")
                /\ IF mail = "thrown"
                   THEN Reply(RegResponse("registerEmail", 500, "Registration failed",
                                          body.email, FALSE))
                   ELSE Reply(RegResponse("registerEmail", 200,
                                          "Registration successful. Please verify your email.",
                                          body.email, TRUE))
    /\ UNCHANGED <<bookings, results, reports, now, parameterInputs, requests>>

\* verifyFirebaseToken: the claims of a token Firebase vouches for, none otherwise
verifyFirebaseToken(idToken) ==
    IF idToken.kind = "valid"
    THEN {[uid |-> idToken.uid, phone |-> idToken.phone, email |-> idToken.email]}
    ELSE {}

\* POST /api/auth/firebase-register
FirebaseRegister(body) ==
    /\ IF Falsy(body.name) \/ body.idToken.kind = "none"
       THEN /\ Reply(RegResponse("firebaseRegister", 400,
                                 "Name and Firebase ID token are required", body.email, FALSE))
            /\ UNCHANGED patients
       ELSE IF verifyFirebaseToken(body.idToken) = {}
       THEN /\ Reply(RegResponse("firebaseRegister", 401,
                                 "Invalid or expired Firebase token", body.email, FALSE))
            /\ UNCHANGED patients
       ELSE \E verified \in verifyFirebaseToken(body.idToken) :
               IF Falsy(verified.phone)
               THEN /\ Reply(RegResponse("firebaseRegister", 400,
                                         "Phone number not found in Firebase account",
                                         body.email, FALSE))
                    /\ UNCHANGED patients
               ELSE IF getPatientByPhone(verified.phone) # {}
               THEN /\ \E existing \in getPatientByPhone(verified.phone) :
                          IF patients[existing].firebaseUid = verified.uid
                          THEN Reply([RegResponse("firebaseRegister", 200, "", body.email,
                                                  FALSE)
                                         EXCEPT !.token = Jwt(existing, "patient")])
                          ELSE Reply(RegResponse("firebaseRegister", 400,
                                                 "Phone number already registered",
                                                 body.email, FALSE))
                    /\ UNCHANGED patients
               ELSE /\ createPatient(FreshId(patients, PatientIdSeq),
                                     NewPatient(IF ~Falsy(body.email) THEN body.email
                                                ELSE OrNull(verified.email),
                                                verified.phone, NULL, verified.uid))
                    /\ Reply([RegResponse("firebaseRegister", 200, "", body.email, FALSE)
                                 EXCEPT !.token = Jwt(FreshId(patients, PatientIdSeq),
                                                      "patient")])
    /\ UNCHANGED <<bookings, results, reports, otps, issued, outbox, now, parameterInputs, requests>>

\* POST /api/admin/patients
AdminCreatePatient(token, body) ==
    /\ IF adminGuard(token) # 200
       THEN /\ Reply(RegResponse("adminCreatePatient", adminGuard(token), "",
                                 body.email, FALSE))
            /\ UNCHANGED patients
       ELSE IF Falsy(body.name) \/ Falsy(body.phone)
       THEN /\ Reply(RegResponse("adminCreatePatient", 400, "Name and phone are required",
                                 body.email, FALSE))
            /\ UNCHANGED patients
       ELSE /\ createPatient(FreshId(patients, PatientIdSeq),
                             NewPatient(OrNull(body.email), body.phone, NULL, NULL))
            /\ Reply(RegResponse("adminCreatePatient", 200, "", body.email, FALSE))
    /\ UNCHANGED <<bookings, results, reports, otps, issued, outbox, now, parameterInputs, requests>>

----------------------------------------------------------------------------
(* The report form: isValueAbnormal *)

\* a JavaScript string is a sequence of one-character strings
DigitChars == <<"0", "1", "2", "3", "4", "5", "6", "7", "8", "9">>
IsDigit(c) == \E i \in 1..Len(DigitChars) : DigitChars[i] = c
DigitValue(c) == (CHOOSE i \in 1..Len(DigitChars) : DigitChars[i] = c) - 1

RECURSIVE Pow10(_)
Pow10(k) == IF k = 0 THEN 1 ELSE 10 * Pow10(k - 1)

\* the length of the run of digits (\d*), of white space (\s*), of s from position i
RECURSIVE DigitRun(_, _)
DigitRun(s, i) == IF i <= Len(s) /\ IsDigit(s[i]) THEN 1 + DigitRun(s, i + 1) ELSE 0

RECURSIVE SpaceRun(_, _)
SpaceRun(s, i) == IF i <= Len(s) /\ s[i] = " " THEN 1 + SpaceRun(s, i + 1) ELSE 0

\* the number the n digits of s from position i write
RECURSIVE DigitsValue(_, _, _)
DigitsValue(s, i, n) ==
    IF n = 0 THEN 0 ELSE 10 * DigitsValue(s, i, n - 1) + DigitValue(s[i + n - 1])

\* a JavaScript number: num / 10^scale, or NaN
NaN == [nan |-> TRUE, num |-> 0, scale |-> 0]
Decimal(num, scale) == [nan |-> FALSE, num |-> num, scale |-> scale]
isNaN(x) == x.nan
Less(x, y) == x.num * Pow10(y.scale) < y.num * Pow10(x.scale)

\* an optional sign, digits, and after a dot more digits, from position i of s:
\* the number written and the characters it takes
SignedDecimalAt(s, i) ==
    LET signed == i <= Len(s) /\ s[i] \in {"-", "+"}
        j == IF signed THEN i + 1 ELSE i
        whole == DigitRun(s, j)
        dotted == j + whole <= Len(s) /\ s[j + whole] = "."
        frac == IF dotted THEN DigitRun(s, j + whole + 1) ELSE 0
        magnitude == DigitsValue(s, j, whole) * Pow10(frac)
                        + DigitsValue(s, j + whole + 1, frac)
    IN  [number |-> IF whole + frac = 0 THEN NaN
                    ELSE Decimal(IF signed /\ s[i] = "-" THEN 0 - magnitude ELSE magnitude,
                                 frac),
         length |-> (j - i) + whole + (IF dotted THEN 1 ELSE 0) + frac]

\* parseFloat: white space is skipped, the longest decimal literal that
\* starts the rest is read and what follows it ignored; NaN without one
\* (exponents and Infinity need letters the strings of the model do not have)
parseFloat(s) == SignedDecimalAt(s, 1 + SpaceRun(s, 1)).number

\* (\d+\.?\d*) at position i: the length of the group, 0 when it does not match
GroupLen(s, i) ==
    LET whole == DigitRun(s, i)
        dotted == i + whole <= Len(s) /\ s[i + whole] = "."
    IN  IF whole = 0 THEN 0
        ELSE whole + (IF dotted THEN 1 + DigitRun(s, i + whole + 1) ELSE 0)

\* /(\d+\.?\d*)\s*-\s*(\d+\.?\d*)/ tried at position i; the quantifiers are
\* greedy and giving characters back never makes the next token match
RangeAt(s, i) ==
    LET minLen == GroupLen(s, i)
        dash == i + minLen + SpaceRun(s, i + minLen)
        maxAt == dash + 1 + SpaceRun(s, dash + 1)
        maxLen == GroupLen(s, maxAt)
    IN  [matched |-> minLen > 0 /\ dash <= Len(s) /\ s[dash] = "-" /\ maxLen > 0,
         min |-> SubSeq(s, i, i + minLen - 1),
         max |-> SubSeq(s, maxAt, maxAt + maxLen - 1)]

\* /<\s*(\d+\.?\d*)/ and />\s*(\d+\.?\d*)/ tried at position i
BoundAt(s, i, sign) ==
    LET at == i + 1 + SpaceRun(s, i + 1)
        len == GroupLen(s, at)
    IN  [matched |-> s[i] = sign /\ len > 0, bound |-> SubSeq(s, at, at + len - 1)]

\* String.prototype.match without the g flag: the leftmost match, none or one
rangeMatch(s) ==
    {RangeAt(s, i) : i \in {i \in 1..Len(s) :
        RangeAt(s, i).matched /\ \A j \in 1..(i - 1) : ~RangeAt(s, j).matched}}

boundMatch(s, sign) ==
    {BoundAt(s, i, sign) : i \in {i \in 1..Len(s) :
        BoundAt(s, i, sign).matched /\ \A j \in 1..(i - 1) : ~BoundAt(s, j, sign).matched}}

isValueAbnormal(value, normalRange) ==
    LET numValue == parseFloat(value)
    IN  IF value = <<>> \/ normalRange = <<>> THEN FALSE
        ELSE IF isNaN(numValue) THEN FALSE
        ELSE IF rangeMatch(normalRange) # {}
        THEN \E m \in rangeMatch(normalRange) :
                Less(numValue, parseFloat(m.min)) \/ Less(parseFloat(m.max), numValue)
        ELSE IF boundMatch(normalRange, "<") # {}
        THEN \E lessThan \in boundMatch(normalRange, "<") :
                ~Less(numValue, parseFloat(lessThan.bound))
        ELSE IF boundMatch(normalRange, ">") # {}
        THEN \E greaterThan \in boundMatch(normalRange, ">") :
                ~Less(parseFloat(greaterThan.bound), numValue)
        ELSE FALSE

\* setParameterInputs on the selection of a test: every value empty, no flag
ParameterInput(value, normalRange, isAbnormal) ==
    [value |-> value, normalRange |-> normalRange, isAbnormal |-> isAbnormal]

SelectTest(normalRanges) ==
    /\ parameterInputs' = [i \in 1..Len(normalRanges) |->
                              ParameterInput(<<>>, normalRanges[i], FALSE)]
    /\ UNCHANGED <<bookings, results, reports, patients, otps, issued, outbox, now, resp,
                   listing, requests>>

updateParameterValue(index, value) ==
    /\ index \in 1..Len(parameterInputs)
    /\ parameterInputs' =
          [parameterInputs EXCEPT ![index] =
              ParameterInput(value, @.normalRange, isValueAbnormal(value, @.normalRange))]
    /\ UNCHANGED <<bookings, results, reports, patients, otps, issued, outbox, now, resp,
                   listing, requests>>

----------------------------------------------------------------------------
(* The clock *)

\* time passes between two requests
Tick(minutes) ==
    /\ now' = now + minutes
    /\ UNCHANGED <<bookings, results, reports, patients, otps, issued, outbox, resp, listing,
                 parameterInputs, requests>>

----------------------------------------------------------------------------
(* The payment ledger: bookings are created, their fulfilment status set,  *)
(* payments recorded by patients and verified by admins.                   *)

EmptyTable == [id \in {} |-> NULL]

\* request bodies of POST /api/bookings
BookingBody(patientId, guestName, phone, testIds, type, slot, paymentMethod, transactionId, amountPaid, razorpayOrderId, razorpayPaymentId) ==
    [patientId |-> patientId, guestName |-> guestName, phone |-> phone,
     testIds |-> testIds, type |-> type, slot |-> slot,
     paymentMethod |-> paymentMethod, transactionId |-> transactionId,
     amountPaid |-> amountPaid, razorpayOrderId |-> razorpayOrderId,
     razorpayPaymentId |-> razorpayPaymentId]

PayBookingBodies ==
    {BookingBody(who[1], who[2], phone, {"t1"}, "walkin", "slot1", method,
                 NULL, "500", order, payment) :
        who \in {<<"p1", NULL>>, <<NULL, "Guest">>},
        phone \in {"9876543210"},
        method \in {"upi", "cash_on_delivery", "pay_at_lab"},
        order \in {NULL, "order_1"},
        payment \in {NULL, "pay_1"}}
    \cup {BookingBody("p1", NULL, NULL, {"t1"}, "walkin", "slot1", "upi",
                      NULL, "500", NULL, NULL),
          BookingBody("p1", NULL, "9876543210", {"t1"}, "walkin", "slot1", NULL,
                      NULL, "500", NULL, NULL)}

\* request bodies of PATCH /api/patient/bookings/:id/payment
PaymentBody(paymentMethod, transactionId, amountPaid) ==
    [paymentMethod |-> paymentMethod, transactionId |-> transactionId,
     amountPaid |-> amountPaid]

PaymentBodies ==
    {PaymentBody(method, txn, amount) :
        method \in {NULL, "upi", "cash_on_delivery"},
        txn \in {NULL, "UPI123"},
        amount \in {NULL, "500"}}

\* the ids requests name: those of the bookings a run can create
PayBookingIds == {BookingIdSeq[i] : i \in 1..MaxPayBookings}

InitPay ==
    /\ bookings = EmptyTable
    /\ results = EmptyTable
    /\ reports = EmptyTable
    /\ patients = EmptyTable
    /\ otps = EmptyTable
    /\ issued = 0
    /\ outbox = <<>>
    /\ now = 0
    /\ resp = NoResponse
    /\ listing = NoListing
    /\ parameterInputs = <<>>
    /\ requests = NoRequests

NextPay ==
    \/ /\ Cardinality(DOMAIN bookings) < MaxPayBookings
       /\ \E body \in PayBookingBodies : CreateBooking(body)
    \/ \E token \in AuthTokens, id \in PayBookingIds, status \in {"collected", "cancelled"} :
          UpdateStatus(token, id, status)
    \/ \E token \in AuthTokens, id \in PayBookingIds, body \in PaymentBodies :
          RecordPatientPayment(token, id, body)
    \/ \E token \in AuthTokens, id \in PayBookingIds : VerifyPayment(token, id)
    \/ now < MaxTime /\ Tick(1)

SpecPay == InitPay /\ [][NextPay]_vars

----------------------------------------------------------------------------
(* The report gate: a patient with a booking from before payment tracking  *)
(* (payment status pending, the column's default), a report linked to it   *)
(* and a legacy report; payments are recorded and verified, reports        *)
(* generated, listed and downloaded.                                       *)

LegacyBooking ==
    [patientId |-> "p1", guestName |-> NULL, phone |-> "9876543210",
     testIds |-> {"t1"}, type |-> "walkin", slot |-> "slot0", status |-> "pending",
     paymentMethod |-> NULL, paymentStatus |-> "pending", transactionId |-> NULL,
     razorpayOrderId |-> NULL, razorpayPaymentId |-> NULL, amountPaid |-> NULL,
     paymentDate |-> NoTime, paymentVerifiedAt |-> NoTime, paymentVerifiedBy |-> NULL]

ResultRow(patientId, testId) ==
    [patientId |-> patientId, testId |-> testId, technician |-> "Tech",
     referredBy |-> NULL, collectedAt |-> "day0", parameterResults |-> {"Hb"}]

ReportRow(id, patientId, resultId, bookingId) ==
    [patientId |-> patientId, resultId |-> resultId, bookingId |-> bookingId,
     pdfPath |-> NULL, secureDownloadToken |-> generateSecureToken(id), generatedAt |-> 0]

GateBookingBodies ==
    {BookingBody("p1", NULL, "9876543210", {test}, "walkin", "slot1", method,
                 NULL, "500", NULL, NULL) :
        test \in Tests, method \in {"upi", "cash_on_delivery"}}

GatePaymentBodies == {PaymentBody(method, NULL, "500") : method \in {"upi", "pay_at_lab"}}

\* request bodies of POST /api/admin/reports/generate
ReportBody(patientId, testId, technician, parameterResults) ==
    [patientId |-> patientId, testId |-> testId, technician |-> technician,
     referredBy |-> NULL, collectedAt |-> "day1", parameterResults |-> parameterResults]

GateReportBodies ==
    {ReportBody(patientId, testId, "Tech", {"Hb"}) :
        patientId \in {"p1", "p2"}, testId \in Tests}
    \cup {ReportBody(NULL, "t1", "Tech", {"Hb"}), ReportBody("p1", "t1", "Tech", NoList),
          ReportBody("p1", NULL, "Tech", {"Hb"}), ReportBody("p1", "t1", NULL, {"Hb"})}

GateBookingIds == {BookingIdSeq[i] : i \in 1..MaxGateBookings}
GateTokens == {generateSecureToken(ReportIdSeq[i]) : i \in 1..MaxReports} \cup {"token_unknown"}

InitGate ==
    /\ bookings = ("b1" :> LegacyBooking)
    /\ \E testId \in Tests :
          results = ("res1" :> ResultRow("p1", "t1")) @@ ("res2" :> ResultRow("p1", testId))
    /\ reports = ("r1" :> ReportRow("r1", "p1", "res1", "b1"))
                 @@ ("r2" :> ReportRow("r2", "p1", "res2", NULL))
    /\ patients = EmptyTable
    /\ otps = EmptyTable
    /\ issued = 0
    /\ outbox = <<>>
    /\ now = 0
    /\ resp = NoResponse
    /\ listing = NoListing
    /\ parameterInputs = <<>>
    /\ requests = NoRequests

NextGate ==
    \/ /\ Cardinality(DOMAIN bookings) < MaxGateBookings
       /\ \E body \in GateBookingBodies : CreateBooking(body)
    \/ \E id \in GateBookingIds, body \in GatePaymentBodies :
          RecordPatientPayment(Jwt("p1", "patient"), id, body)
    \/ \E id \in GateBookingIds : VerifyPayment(Jwt("a1", "admin"), id)
    \/ /\ Cardinality(DOMAIN reports) < MaxReports
       /\ \E token \in {Jwt("a1", "admin"), Jwt("p1", "patient")}, body \in GateReportBodies :
             GenerateReport(token, body)
    \/ \E token \in GateTokens : DownloadReport(token)
    \/ \E token \in {NoToken} \cup PatientTokens : ListPatientReports(token)

SpecGate == InitGate /\ [][NextGate]_vars

----------------------------------------------------------------------------
(* The verifier: registered patients whose email is not verified yet ask   *)
(* for verification codes and present codes, while time passes.            *)

PatientRow(email, phone, emailVerified) ==
    [email |-> email, phone |-> phone, password |-> "hash", emailVerified |-> emailVerified]

Emails == {"user@x.com", "other@x.com"}

InitOtp ==
    /\ bookings = EmptyTable
    /\ results = EmptyTable
    /\ reports = EmptyTable
    /\ patients = ("p1" :> PatientRow("user@x.com", "9876543210", FALSE))
                  @@ ("p2" :> PatientRow("other@x.com", "9876543211", FALSE))
    /\ otps = EmptyTable
    /\ issued = 0
    /\ outbox = <<>>
    /\ now = 0
    /\ resp = NoResponse
    /\ listing = NoListing
    /\ parameterInputs = <<>>
    /\ requests = NoRequests

NextOtp ==
    \/ /\ issued < MaxOtps
       /\ \E email \in Emails \cup {NULL, "nobody@x.com"}, otp \in Codes :
             ResendVerification(email, otp, "delivers")
    \/ \E email \in Emails \cup {NULL, "nobody@x.com"}, otp \in Codes \cup {NULL} :
          VerifyEmail(email, otp)
    \/ now < MaxOtpTime /\ Tick(VerificationMinutes)

SpecOtp == InitOtp /\ [][NextOtp]_vars

----------------------------------------------------------------------------
(* The credentials: a registered patient whose email is not verified asks *)
(* for codes of every purpose and presents codes to the three verifying    *)
(* handlers, while time passes.                                            *)

AuthPatientRow(email, phone, password, emailVerified) ==
    [email |-> email, phone |-> phone, password |-> password,
     emailVerified |-> emailVerified]

AuthContacts == {"user@x.com", NULL}

InitAuth ==
    /\ bookings = EmptyTable
    /\ results = EmptyTable
    /\ reports = EmptyTable
    /\ patients = ("p1" :> AuthPatientRow("user@x.com", "9876543210",
                                          bcryptHash("secret1"), FALSE))
    /\ otps = EmptyTable
    /\ issued = 0
    /\ outbox = <<>>
    /\ now = 0
    /\ resp = NoResponse
    /\ listing = NoListing
    /\ parameterInputs = <<>>
    /\ requests = NoRequests

NextAuth ==
    \/ /\ issued < MaxAuthOtps
       /\ \E contact \in AuthContacts, purpose \in {"register", NULL}, otp \in Codes :
             RequestOtp(contact, purpose, otp)
    \/ /\ issued < MaxAuthOtps
       /\ \E email \in AuthContacts \cup {"nobody@x.com"}, otp \in Codes :
             ForgotPassword(email, otp, "delivers")
    \/ /\ issued < MaxAuthOtps
       /\ \E email \in AuthContacts, otp \in Codes :
             ResendVerification(email, otp, "delivers")
    \/ \E contact \in AuthContacts, otp \in Codes : VerifyOtp(contact, otp, "register")
    \/ \E email \in AuthContacts, otp \in Codes : VerifyEmail(email, otp)
    \/ \E email \in AuthContacts, otp \in Codes, newPassword \in {"secret9", "short"} :
          ResetPassword(email, otp, newPassword)
    \/ now < MaxAuthTime /\ Tick(VerificationMinutes)

SpecAuth == InitAuth /\ [][NextAuth]_vars

----------------------------------------------------------------------------
(* The login: a patient whose email may be unverified and whose password   *)
(* may not be set, and a patient in good standing, log in; the first can   *)
(* have the email verified and the password reset.                         *)

LoginEmails == {"user@x.com", "other@x.com", "nobody@x.com", NULL}
LoginPasswords == {"secret1", "secret9", NULL}

InitLogin ==
    /\ bookings = EmptyTable
    /\ results = EmptyTable
    /\ reports = EmptyTable
    /\ \E password \in {NULL, bcryptHash("secret1")}, emailVerified \in BOOLEAN :
          patients = ("p1" :> AuthPatientRow("user@x.com", "9876543210",
                                             password, emailVerified))
                     @@ ("p2" :> AuthPatientRow("other@x.com", "9876543211",
                                                bcryptHash("secret1"), TRUE))
    /\ otps = EmptyTable
    /\ issued = 0
    /\ outbox = <<>>
    /\ now = 0
    /\ resp = NoResponse
    /\ listing = NoListing
    /\ parameterInputs = <<>>
    /\ requests = NoRequests

NextLogin ==
    \/ \E email \in LoginEmails, password \in LoginPasswords : LoginEmail(email, password)
    \/ /\ issued < MaxLoginOtps
       /\ ResendVerification("user@x.com", "123456", "delivers")
    \/ /\ issued < MaxLoginOtps
       /\ ForgotPassword("user@x.com", "123456", "delivers")
    \/ VerifyEmail("user@x.com", "123456")
    \/ ResetPassword("user@x.com", "123456", "secret9")

SpecLogin == InitLogin /\ [][NextLogin]_vars

----------------------------------------------------------------------------
(* The back office: a booking whose payment awaits verification; anyone,   *)
(* with or without a token, asks for the three admin operations.           *)

UnverifiedBooking ==
    [patientId |-> "p1", guestName |-> NULL, phone |-> "9876543210",
     testIds |-> {"t1"}, type |-> "walkin", slot |-> "slot1", status |-> "pending",
     paymentMethod |-> "upi", paymentStatus |-> "paid_unverified",
     transactionId |-> "UPI123", razorpayOrderId |-> NULL, razorpayPaymentId |-> NULL,
     amountPaid |-> "500", paymentDate |-> 0, paymentVerifiedAt |-> NoTime,
     paymentVerifiedBy |-> NULL]

\* the ids requests name: the booking's and one no booking has
AdminBookingIds == {"b1", "b404"}

\* the status values requests carry: the five of the schema and two others
AdminStatuses == bookingStatuses \cup {"cancelled", "PENDING"}

AdminReportBodies ==
    {ReportBody("p1", "t1", "Tech", {"Hb"}), ReportBody("p1", "t1", NULL, {"Hb"})}

InitAdmin ==
    /\ bookings = ("b1" :> UnverifiedBooking)
    /\ results = EmptyTable
    /\ reports = EmptyTable
    /\ patients = EmptyTable
    /\ otps = EmptyTable
    /\ issued = 0
    /\ outbox = <<>>
    /\ now = 0
    /\ resp = NoResponse
    /\ listing = NoListing
    /\ parameterInputs = <<>>
    /\ requests = NoRequests

NextAdmin ==
    \/ \E token \in AuthTokens, id \in AdminBookingIds, status \in AdminStatuses :
          UpdateStatus(token, id, status)
    \/ \E token \in AuthTokens, id \in AdminBookingIds : VerifyPayment(token, id)
    \/ /\ Cardinality(DOMAIN reports) < MaxAdminReports
       /\ \E token \in AuthTokens, body \in AdminReportBodies : GenerateReport(token, body)
    \/ now < MaxAdminTime /\ Tick(1)

SpecAdmin == InitAdmin /\ [][NextAdmin]_vars

----------------------------------------------------------------------------
(* The booking desk: bookings are submitted, by patients and guests, with  *)
(* every shape of identity and of test list a request body can carry.      *)

BookBodies ==
    {BookingBody(who[1], who[2], phone, testIds, "walkin", "slot1", method,
                 NULL, "500", NULL, NULL) :
        who \in {<<"p1", NULL>>, <<NULL, "Guest">>, <<"p1", "Guest">>,
                 <<NULL, NULL>>, <<NULL, "">>},
        phone \in {"9876543210", NULL, ""},
        testIds \in {{"t1"}, {"t1", "t2"}, {}, {"t404"}, {"t1", "t404"}, NoList},
        method \in {"upi", "pay_at_lab"}}

InitBook ==
    /\ bookings = EmptyTable
    /\ results = EmptyTable
    /\ reports = EmptyTable
    /\ patients = EmptyTable
    /\ otps = EmptyTable
    /\ issued = 0
    /\ outbox = <<>>
    /\ now = 0
    /\ resp = NoResponse
    /\ listing = NoListing
    /\ parameterInputs = <<>>
    /\ requests = NoRequests

NextBook ==
    /\ Cardinality(DOMAIN bookings) < MaxBookBookings
    /\ \E body \in BookBodies : CreateBooking(body)

SpecBook == InitBook /\ [][NextBook]_vars

----------------------------------------------------------------------------
(* The registry: patients register by email and password, by phone, through *)
(* Firebase or are entered by an admin; verification and reset codes are    *)
(* mailed to them.                                                          *)

RegEmails == {"user@x.com", "other@x.com"}
RegPhones == {"9876543210", "9123456780"}

RegBody(name, email, phone, password, idToken) ==
    [name |-> name, email |-> email, phone |-> phone, password |-> password,
     idToken |-> idToken]

FirebaseToken(kind, uid, phone, email) ==
    [kind |-> kind, uid |-> uid, phone |-> phone, email |-> email]

NoFirebaseToken == FirebaseToken("none", NULL, NULL, NULL)

FirebaseTokens ==
    {NoFirebaseToken, FirebaseToken("invalid", NULL, NULL, NULL)} \cup
    {FirebaseToken("valid", uid, phone, email) :
        uid \in {"uid1", "uid2"}, phone \in RegPhones \cup {NULL},
        email \in {"user@x.com", NULL}}

RegBodies ==
    {RegBody("Asha", email, phone, password, NoFirebaseToken) :
        email \in RegEmails \cup {NULL, "user.x.com"}, phone \in RegPhones,
        password \in {"secret1", "short"}} \cup
    {RegBody(NULL, "user@x.com", "9876543210", "secret1", NoFirebaseToken),
     RegBody("Asha", "user@x.com", NULL, "secret1", NoFirebaseToken),
     RegBody("Asha", "user@x.com", "9876543210", NULL, NoFirebaseToken)}

FirebaseBodies ==
    {RegBody("Asha", email, NULL, NULL, idToken) :
        email \in {"other@x.com", NULL}, idToken \in FirebaseTokens} \cup
    {RegBody(NULL, NULL, NULL, NULL, FirebaseToken("valid", "uid1", "9876543210", NULL))}

InitReg ==
    /\ bookings = EmptyTable
    /\ results = EmptyTable
    /\ reports = EmptyTable
    /\ patients = EmptyTable
    /\ otps = EmptyTable
    /\ issued = 0
    /\ outbox = <<>>
    /\ now = 0
    /\ resp = NoResponse
    /\ listing = NoListing
    /\ parameterInputs = <<>>
    /\ requests = NoRequests

NextReg ==
    \/ /\ Cardinality(DOMAIN patients) < MaxRegPatients
       /\ issued < MaxRegOtps
       /\ \E body \in RegBodies, otp \in Codes : Register(body, otp)
    \/ /\ Cardinality(DOMAIN patients) < MaxRegPatients
       /\ issued < MaxRegOtps
       /\ \E body \in RegBodies, otp \in Codes : RegisterEmail(body, otp, "delivers")
    \/ /\ Cardinality(DOMAIN patients) < MaxRegPatients
       /\ \E body \in FirebaseBodies : FirebaseRegister(body)
    \/ /\ Cardinality(DOMAIN patients) < MaxRegPatients
       /\ \E token \in {NoToken, Jwt("p1", "patient"), Jwt("a1", "admin")},
             body \in RegBodies : AdminCreatePatient(token, body)

SpecReg == InitReg /\ [][NextReg]_vars

----------------------------------------------------------------------------
(* The mail room: patients register by email and ask for verification and  *)
(* reset codes while the mail transport delivers, fails or is not set up.   *)

MailBodies ==
    {RegBody("Asha", email, phone, "secret1", NoFirebaseToken) :
        email \in RegEmails, phone \in RegPhones} \cup
    {RegBody("Asha", "user@x.com", "9876543210", "short", NoFirebaseToken)}

NextMail ==
    \/ /\ Cardinality(DOMAIN patients) < MaxMailPatients
       /\ issued < MaxMailOtps
       /\ \E body \in MailBodies, otp \in Codes, transport \in Transports :
             RegisterEmail(body, otp, transport)
    \/ /\ issued < MaxMailOtps
       /\ \E email \in RegEmails \cup {NULL}, otp \in Codes, transport \in Transports :
             ResendVerification(email, otp, transport)
    \/ /\ issued < MaxMailOtps
       /\ \E email \in RegEmails \cup {NULL}, otp \in Codes, transport \in Transports :
             ForgotPassword(email, otp, transport)

SpecMail == InitReg /\ [][NextMail]_vars

----------------------------------------------------------------------------
(* The report form: an admin selects a test and types the measured values. *)

FormChars == {"1", "5", ".", "-", "<", ">", " "}
ValueChars == {"1", "5", ".", "-", "x"}

\* the strings over an alphabet of at most n characters
Strings(alphabet, n) == UNION {[1..k -> alphabet] : k \in 0..n}

InitForm ==
    /\ bookings = EmptyTable
    /\ results = EmptyTable
    /\ reports = EmptyTable
    /\ patients = EmptyTable
    /\ otps = EmptyTable
    /\ issued = 0
    /\ outbox = <<>>
    /\ now = 0
    /\ resp = NoResponse
    /\ listing = NoListing
    /\ parameterInputs = <<>>
    /\ requests = NoRequests

NextForm ==
    \/ /\ parameterInputs = <<>>
       /\ \E normalRange \in Strings(FormChars, MaxRangeLen) : SelectTest(<<normalRange>>)
    \/ \E value \in Strings(ValueChars, MaxValueLen) : updateParameterValue(1, value)

SpecForm == InitForm /\ [][NextForm]_vars

----------------------------------------------------------------------------
(* The report shelf: a patient with a booking of their own and a report    *)
(* that refers to that booking, to a guest's booking or to none; payments  *)
(* are recorded and verified and the patient lists their reports.          *)

\* a booking made without an account: guestName instead of patientId
GuestBooking ==
    [UnverifiedBooking EXCEPT !.patientId = NULL, !.guestName = "Guest"]

ListBookingIds == {"b1", "b2"}

InitList ==
    /\ bookings = ("b1" :> LegacyBooking) @@ ("b2" :> GuestBooking)
    /\ results = ("res1" :> ResultRow("p1", "t1"))
    /\ \E bookingId \in ListBookingIds \cup {NULL} :
          reports = ("r1" :> ReportRow("r1", "p1", "res1", bookingId))
    /\ patients = EmptyTable
    /\ otps = EmptyTable
    /\ issued = 0
    /\ outbox = <<>>
    /\ now = 0
    /\ resp = NoResponse
    /\ listing = NoListing
    /\ parameterInputs = <<>>
    /\ requests = NoRequests

NextList ==
    \/ \E id \in ListBookingIds, body \in GatePaymentBodies :
          RecordPatientPayment(Jwt("p1", "patient"), id, body)
    \/ \E id \in ListBookingIds : VerifyPayment(Jwt("a1", "admin"), id)
    \/ \E token \in {NoToken} \cup PatientTokens : ListPatientReports(token)
    \/ \E token \in GateTokens : DownloadReport(token)

SpecList == InitList /\ [][NextList]_vars

----------------------------------------------------------------------------
(* The verification desk: admins send verify-payment requests for one      *)
(* booking at the same time; the storage calls of the requests interleave. *)

RaceRequests == {"q1", "q2"}

InitRace ==
    /\ bookings = ("b1" :> UnverifiedBooking)
    /\ results = EmptyTable
    /\ reports = EmptyTable
    /\ patients = EmptyTable
    /\ otps = EmptyTable
    /\ issued = 0
    /\ outbox = <<>>
    /\ now = 0
    /\ resp = NoResponse
    /\ listing = NoListing
    /\ parameterInputs = <<>>
    /\ requests = NoRequests

NextRace ==
    \/ \E q \in RaceRequests, token \in AdminTokens \cup {Jwt("p1", "patient")},
          id \in AdminBookingIds : VerifyPaymentRead(q, token, id)
    \/ \E q \in RaceRequests : VerifyPaymentWrite(q)
    \/ now < MaxRaceTime /\ Tick(1)

SpecRace == InitRace /\ [][NextRace]_vars

----------------------------------------------------------------------------
(* The guessing room: verify-email requests for one code arrive at the     *)
(* same time; the storage calls of the requests interleave.                *)

GuessRequests == {"q1", "q2", "q3", "q4"}

InitGuess ==
    /\ bookings = EmptyTable
    /\ results = EmptyTable
    /\ reports = EmptyTable
    /\ patients = ("p1" :> PatientRow("user@x.com", "9876543210", FALSE))
    /\ otps = ("o1" :> [contact |-> "user@x.com", otp |-> "123456",
                        purpose |-> "email_verification", attempts |-> 0,
                        createdAt |-> 0, serial |-> 1, expiresAt |-> VerificationMinutes])
    /\ issued = 1
    /\ outbox = <<[contact |-> "user@x.com", otp |-> "123456",
                   purpose |-> "email_verification", via |-> "sent"]>>
    /\ now = 0
    /\ resp = NoResponse
    /\ listing = NoListing
    /\ parameterInputs = <<>>
    /\ requests = NoRequests

NextGuess ==
    \/ \E q \in GuessRequests, email \in {"user@x.com", NULL}, otp \in Codes :
          VerifyEmailRead(q, email, otp)
    \/ \E q \in GuessRequests : VerifyEmailIncrement(q)
    \/ \E q \in GuessRequests : VerifyEmailCompare(q)

SpecGuess == InitGuess /\ [][NextGuess]_vars

----------------------------------------------------------------------------
(* Properties of the payment ledger *)

CashStatuses == {"cash_on_delivery", "pay_at_lab"}

\* the payment fields a patient-submitted payment writes
PaymentFields(booking) ==
    <<booking.paymentMethod, booking.paymentStatus, booking.transactionId,
      booking.amountPaid, booking.paymentDate>>

\* C4: verifyPayment twice in sequence on a booking that is paid_unverified:
\* the first call answers 200, sets paymentStatus to verified and records the
\* admin and the time; a second call, by any admin at any later time, answers
\* 400 and leaves the bookings as they are.
C4_VerifyPaymentTwice ==
    [][\A token \in AdminTokens, id \in DOMAIN bookings :
          VerifyPayment(token, id) =>
             /\ bookings[id].paymentStatus = "paid_unverified" =>
                   /\ resp'.status = 200
                   /\ bookings'[id].paymentStatus = "verified"
                   /\ bookings'[id].paymentVerifiedBy = token.id
                   /\ bookings'[id].paymentVerifiedAt = now
             /\ (resp.op = "verifyPayment" /\ resp.status = 200 /\ resp.id = id) =>
                   /\ resp'.status = 400
                   /\ resp'.msg = "Payment is not pending verification"
                   /\ bookings' = bookings]_vars

\* a second verifyPayment, by another admin at a later time, has been refused
\* and the first one's record stands
C4_Witness ==
    /\ resp.op = "verifyPayment" /\ resp.status = 400
    /\ resp.id \in DOMAIN bookings
    /\ bookings[resp.id].paymentStatus = "verified"
    /\ bookings[resp.id].paymentVerifiedBy \in Admins \ {resp.user}
    /\ bookings[resp.id].paymentVerifiedAt # NoTime
    /\ bookings[resp.id].paymentVerifiedAt < now

JustCreated == resp.op = "createBooking" /\ resp.status = 200

\* C6 as claimed: a booking created with a gateway order id and payment id is
\* verified at creation, whatever its payment method; every non-cash booking
\* with a gateway id missing is paid_unverified.
C6_GatewayPairAlwaysVerified ==
    JustCreated =>
       LET booking == bookings[resp.id]
       IN  /\ (booking.razorpayOrderId # NULL /\ booking.razorpayPaymentId # NULL) =>
                 booking.paymentStatus = "verified"
           /\ (booking.paymentMethod \notin CashStatuses
                  /\ (booking.razorpayOrderId = NULL \/ booking.razorpayPaymentId = NULL)) =>
                 booking.paymentStatus = "paid_unverified"

\* C6 amended: the cash rule comes first.  A booking created with a non-cash
\* method is verified when both gateway ids are in the request and
\* paid_unverified when one is missing; a cash booking keeps its method as
\* status even with both gateway ids.
C6_CreationStatus ==
    JustCreated =>
       LET booking == bookings[resp.id]
       IN  booking.paymentStatus =
              IF booking.paymentMethod \in CashStatuses THEN booking.paymentMethod
              ELSE IF booking.razorpayOrderId # NULL /\ booking.razorpayPaymentId # NULL
                   THEN "verified"
              ELSE "paid_unverified"

\* a cash booking that carries both gateway ids has just been created, and it
\* is not verified
C6_Witness ==
    /\ JustCreated
    /\ bookings[resp.id].razorpayOrderId # NULL
    /\ bookings[resp.id].razorpayPaymentId # NULL
    /\ bookings[resp.id].paymentMethod \in CashStatuses
    /\ bookings[resp.id].paymentStatus = bookings[resp.id].paymentMethod

\* the request a step answers: every step but a tick of the clock is a request,
\* and resp' names its handler, the booking it asked for and the caller
Answers(op) == now' = now /\ resp'.op = op

\* C7: once a booking exists, its paymentStatus becomes verified only by a
\* verifyPayment that an admin's token authorises; recordPatientPayment never
\* leaves a booking verified, and updateStatus leaves every paymentStatus alone.
C7_OnlyAdminVerifies ==
    [][/\ \A id \in DOMAIN bookings :
             (bookings[id].paymentStatus # "verified"
                 /\ bookings'[id].paymentStatus = "verified") =>
                \E token \in AdminTokens :
                   /\ VerifyPayment(token, id)
                   /\ resp'.op = "verifyPayment" /\ resp'.status = 200
       /\ (Answers("recordPatientPayment") /\ resp'.status = 200) =>
             bookings'[resp'.id].paymentStatus # "verified"
       /\ Answers("updateStatus") =>
             \A id \in DOMAIN bookings :
                bookings'[id].paymentStatus = bookings[id].paymentStatus]_vars

\* a patient has recorded a non-cash payment on a booking that carries both
\* gateway ids, and the booking is not verified
C7_Witness ==
    /\ resp.op = "recordPatientPayment" /\ resp.status = 200
    /\ bookings[resp.id].razorpayOrderId # NULL
    /\ bookings[resp.id].razorpayPaymentId # NULL
    /\ bookings[resp.id].paymentMethod \notin CashStatuses
    /\ bookings[resp.id].paymentStatus = "paid_unverified"

\* C8 as claimed: a booking whose paymentStatus is cash_on_delivery or
\* pay_at_lab keeps that paymentStatus in every step.
C8_CashStatusTerminal ==
    [][\A id \in DOMAIN bookings :
          bookings[id].paymentStatus \in CashStatuses =>
             bookings'[id].paymentStatus = bookings[id].paymentStatus]_vars

\* the requests of an authenticated caller who is not the booking's patient
\* that a recordPatientPayment step may answer
NonOwnerRequests ==
    {req \in AuthTokens \X PaymentBodies :
        /\ authenticateToken(req[1]) = 200
        /\ req[1].id = resp'.user
        /\ bookings[resp'.id].patientId # req[1].id
        /\ RecordPatientPayment(req[1], resp'.id, req[2])}

\* C9 as claimed: recordPatientPayment by an authenticated caller who is not
\* the booking's patient answers 403 and leaves the payment fields alone.
C9_NonOwnerForbidden ==
    [][(Answers("recordPatientPayment") /\ resp'.id \in DOMAIN bookings) =>
          \A req \in NonOwnerRequests :
             /\ resp'.status = 403
             /\ PaymentFields(bookings'[resp'.id]) = PaymentFields(bookings[resp'.id])]_vars

\* C9 amended: the body is validated before the ownership test.  Such a
\* request answers 403 when it carries a payment method and an amount and 400
\* when one of them is missing; in both cases the booking is left as it is.
C9_NonOwnerRefused ==
    [][(Answers("recordPatientPayment") /\ resp'.id \in DOMAIN bookings) =>
          \A req \in NonOwnerRequests :
             /\ resp'.status = IF Falsy(req[2].paymentMethod) \/ Falsy(req[2].amountPaid)
                               THEN 400 ELSE 403
             /\ bookings'[resp'.id] = bookings[resp'.id]]_vars

\* a patient has been refused on a guest booking
C9_Witness ==
    /\ resp.op = "recordPatientPayment" /\ resp.status = 403
    /\ resp.user \in Patients
    /\ resp.id \in DOMAIN bookings
    /\ bookings[resp.id].patientId = NULL

----------------------------------------------------------------------------
(* Properties of the report gate *)

\* the report a download asked for, if the last request is a download of a
\* report that exists
Downloaded == reports[CHOOSE r \in getReportByToken(resp.id) : TRUE]

DownloadAnswered == resp.op = "download" /\ getReportByToken(resp.id) # {}

\* C1: a download of a report that carries a booking reference is served (200)
\* exactly when the booking exists and its paymentStatus is verified,
\* cash_on_delivery or pay_at_lab, and is answered 403 otherwise; so it is
\* refused while the booking is pending and served once it is verified.
C1_DownloadGate ==
    (DownloadAnswered /\ Downloaded.bookingId # NULL) =>
       /\ resp.status \in {200, 403}
       /\ resp.status = 200 <=>
             /\ Downloaded.bookingId \in DOMAIN bookings
             /\ bookings[Downloaded.bookingId].paymentStatus
                   \in {"verified", "cash_on_delivery", "pay_at_lab"}
       /\ bookings[Downloaded.bookingId].paymentStatus \in {"pending", "paid_unverified"} =>
             resp.status = 403

\* the report linked to the booking that was pending at first is served, the
\* booking having been verified by an admin since
C1_Witness ==
    /\ DownloadAnswered /\ resp.status = 200
    /\ Downloaded.bookingId = "b1"
    /\ bookings["b1"].paymentStatus = "verified"
    /\ bookings["b1"].paymentVerifiedBy \in Admins

\* whether GET /api/reports/download/:token serves the report
Serves(report) == DownloadOutcome(report)[1] = 200

\* C2 as claimed: the listing gives a report's token exactly when the download
\* of that report would be served.
C2_ListingAgreesWithDownload ==
    (resp.op = "listReports" /\ resp.status = 200) =>
       \A r \in DOMAIN listing :
          listing[r].secureDownloadToken # NULL <=> Serves(reports[r])

\* C3 as claimed: a report without a booking reference is always disclosed: its
\* download is served, and the listing never withholds its token.
C3_LegacyAlwaysDisclosed ==
    /\ (DownloadAnswered /\ Downloaded.bookingId = NULL) => resp.status = 200
    /\ (resp.op = "listReports" /\ resp.status = 200) =>
          \A r \in DOMAIN listing :
             reports[r].bookingId = NULL =>
                /\ listing[r].paymentVerified
                /\ listing[r].secureDownloadToken = reports[r].secureDownloadToken

----------------------------------------------------------------------------
(* Properties of the verifier *)

NoRequestFound == "No verification request found. Please request a new OTP."
AttemptsExceededMessage == "Maximum attempts exceeded. Please request a new OTP."

\* a step that answers a verify-email request carrying an email and a code
VerifyEmailAnswered == Answers("verifyEmail") /\ ~Falsy(resp'.id) /\ ~Falsy(resp'.code)

\* the code in force for the email the step's request names, before the step
InForce == getOtpByContact(resp'.id, "email_verification")

\* the step leaves the patients as they are and issues no token
NothingVerified == patients' = patients /\ resp'.token = NoToken

\* C10 as claimed: the third verify-email call in a row with a wrong code
\* answers "maximum attempts exceeded" and deletes the code; calls that find no
\* code answer "no verification request found" and verify nothing.
C10_ThirdFailureDeletes ==
    [][VerifyEmailAnswered =>
          /\ \A id \in InForce :
                (otps[id].attempts = 2 /\ resp'.code # otps[id].otp) =>
                   /\ resp'.msg = AttemptsExceededMessage
                   /\ id \notin DOMAIN otps'
                   /\ NothingVerified
          /\ InForce = {} =>
                /\ resp'.msg = NoRequestFound
                /\ otps' = otps
                /\ NothingVerified]_vars

\* C10 amended: each of the first three calls with a wrong code answers
\* "Invalid OTP" (the third without attempts remaining) and counts one attempt,
\* so the third leaves the code in place with three attempts.  The next call
\* that finds the code, even with the right code, answers "maximum attempts
\* exceeded", deletes it and verifies nothing; a call that finds no code answers
\* "no verification request found" and verifies nothing.  No code ever counts
\* more than three attempts.
C10_AttemptLimit ==
    [][/\ VerifyEmailAnswered =>
             /\ \A id \in InForce :
                   /\ (otps[id].attempts < 3 /\ resp'.code # otps[id].otp) =>
                         /\ resp'.status = 400
                         /\ resp'.msg = IF otps[id].attempts = 0
                                        THEN "Invalid OTP. 2 attempts remaining."
                                        ELSE IF otps[id].attempts = 1
                                        THEN "Invalid OTP. 1 attempts remaining."
                                        ELSE "Invalid OTP. Please request a new OTP."
                         /\ id \in DOMAIN otps'
                         /\ otps'[id] = [otps[id] EXCEPT !.attempts = @ + 1]
                         /\ NothingVerified
                   /\ otps[id].attempts >= 3 =>
                         /\ resp'.status = 400
                         /\ resp'.msg = AttemptsExceededMessage
                         /\ id \notin DOMAIN otps'
                         /\ NothingVerified
             /\ InForce = {} =>
                   /\ resp'.status = 400
                   /\ resp'.msg = NoRequestFound
                   /\ otps' = otps
                   /\ NothingVerified
       /\ \A id \in DOMAIN otps' : otps'[id].attempts <= 3]_vars

\* the third wrong code in a row has been answered, and the code is still there
C10_Witness ==
    /\ resp.op = "verifyEmail"
    /\ resp.msg = "Invalid OTP. Please request a new OTP."
    /\ \E id \in DOMAIN otps :
          /\ otps[id].contact = resp.id
          /\ otps[id].purpose = "email_verification"
          /\ otps[id].attempts = 3
          /\ otps[id].otp # resp.code
          /\ otps[id].expiresAt > now
    /\ \A p \in getPatientByEmail(resp.id) : ~patients[p].emailVerified

----------------------------------------------------------------------------
(* Properties of the credentials *)

VerifyingHandlers == {"verifyEmail", "resetPassword", "verifyOtp"}

\* the request just answered repeats the one answered before it: the same
\* handler is given the same contact and the same code
Repeats == /\ now' = now
           /\ resp'.op = resp.op
           /\ resp'.id = resp.id
           /\ resp'.code = resp.code

\* C11: an OTP is single use: after verify-email, reset-password or verify-otp
\* has accepted a code, presenting the same contact, purpose and code again is
\* rejected and has no effect: no token, no change to a patient.
C11_SingleUse ==
    [][(resp.op \in VerifyingHandlers /\ resp.status = 200 /\ Repeats) =>
          /\ resp'.status # 200
          /\ resp'.token = NoToken
          /\ patients' = patients]_vars

\* the purpose of the codes a verifying handler looks up
PurposeOf(op) ==
    IF op = "verifyEmail" THEN "email_verification"
    ELSE IF op = "resetPassword" THEN "password_reset"
    ELSE "register"

\* the minutes a code of the purpose may be presented after its issue
Lifetime(purpose) == IF purpose = "password_reset" THEN 10 ELSE 5

\* a verifying handler has answered a request
Verifies == now' = now /\ resp'.op \in VerifyingHandlers

ThirdWrongReset(email) ==
    /\ now' = now /\ resp'.op = "resetPassword" /\ resp'.id = email
    /\ resp'.msg = "Invalid or expired OTP"
    /\ \E o \in getOtpByContact(email, "password_reset") :
          otps[o].attempts = MaxAttempts - 1 /\ otps[o].otp # resp'.code

\* the reset codes of the email that reset-password can still accept
Resettable(table, email) ==
    {o \in DOMAIN table : /\ table[o].contact = email
                          /\ table[o].purpose = "password_reset"
                          /\ table[o].expiresAt > now}

\* C13: the attempt limit applies to password_reset codes: a reset-password call
\* with a wrong code increments the attempt counter of the code in force, and
\* once three wrong codes have been presented the code is gone, so that no
\* later reset-password call is left a code with which to change the password.
C13_ResetAttemptLimit ==
    [][\A email \in Emails :
          /\ (/\ now' = now /\ resp'.op = "resetPassword" /\ resp'.id = email
              /\ resp'.msg = "Invalid or expired OTP") =>
                \A o \in getOtpByContact(email, "password_reset") :
                   \/ o \notin DOMAIN otps'
                   \/ otps'[o].attempts = otps[o].attempts + 1
          /\ ThirdWrongReset(email) => Resettable(otps', email) = {}]_vars

\* the positions in the outbox of the codes issued for the contact and purpose
IssuedFor(contact, purpose) ==
    {i \in 1..Len(outbox) : outbox[i].contact = contact /\ outbox[i].purpose = purpose}

\* C14: at most one code is live per contact and purpose: whenever a verifying
\* handler accepts a code, it is the code most recently issued for that contact
\* and purpose; every code issued earlier is rejected.
C14_OnlyLatestAccepted ==
    [][(Verifies /\ resp'.status = 200) =>
          \E i \in IssuedFor(resp'.id, PurposeOf(resp'.op)) :
             /\ outbox[i].otp = resp'.code
             /\ \A j \in IssuedFor(resp'.id, PurposeOf(resp'.op)) : j <= i]_vars

----------------------------------------------------------------------------
(* Properties of the login *)

\* the patient has a password hash and the password given matches it
PasswordMatches(patient, password) ==
    ~Falsy(patient.password) /\ bcryptCompare(password, patient.password)

\* C15: login-email issues a session token only for a patient that exists, has
\* a password hash the password matches and a verified email; a matching
\* password with an unverified email is answered 403 with requiresVerification
\* and the patient's email and no token; a patient without a password hash gets
\* a message other than the one for invalid credentials.
C15_LoginEmail ==
    [][\A email \in LoginEmails, password \in LoginPasswords :
          LoginEmail(email, password) =>
             /\ resp'.token # NoToken <=>
                   /\ resp'.status = 200
                   /\ \E p \in getPatientByEmail(email) :
                         /\ PasswordMatches(patients[p], password)
                         /\ patients[p].emailVerified
                         /\ resp'.token = Jwt(p, "patient")
             /\ \A p \in getPatientByEmail(email) :
                   /\ (PasswordMatches(patients[p], password) /\ ~patients[p].emailVerified) =>
                         /\ resp'.status = 403
                         /\ resp'.requiresVerification
                         /\ resp'.email = patients[p].email
                         /\ resp'.token = NoToken
                   /\ (Falsy(patients[p].password) /\ ~Falsy(password)) =>
                         /\ resp'.status = 401
                         /\ resp'.msg # "Invalid email or password"]_vars

\* a patient whose email was not verified has given the right password, set by
\* a reset, and was told to verify the email
C15_Witness ==
    /\ resp.op = "loginEmail" /\ resp.status = 403
    /\ resp.requiresVerification /\ resp.email = "user@x.com" /\ resp.token = NoToken
    /\ \E p \in getPatientByEmail(resp.id) :
          /\ patients[p].password = bcryptHash("secret9")
          /\ ~patients[p].emailVerified

----------------------------------------------------------------------------
(* Properties of the back office *)

\* the answer of the admin routes to a token that is not an admin's
Refusal(token) == IF token = NoToken THEN 401 ELSE 403

\* nothing is created or modified
NothingWritten ==
    /\ bookings' = bookings
    /\ results' = results
    /\ reports' = reports

\* C16: updateStatus, verifyPayment and generateReport take effect only for a
\* request with a valid JWT of type admin: without a token the answer is 401,
\* with an invalid token or a patient's token 403, and then no booking, result
\* or report is created or modified.
C16_AdminOnly ==
    [][/\ \A token \in AuthTokens \ AdminTokens :
             /\ \A id \in AdminBookingIds, status \in AdminStatuses :
                   UpdateStatus(token, id, status) =>
                      resp'.status = Refusal(token) /\ NothingWritten
             /\ \A id \in AdminBookingIds :
                   VerifyPayment(token, id) =>
                      resp'.status = Refusal(token) /\ NothingWritten
             /\ \A body \in AdminReportBodies :
                   GenerateReport(token, body) =>
                      resp'.status = Refusal(token) /\ NothingWritten
       /\ ~NothingWritten => resp'.status = 200 /\ resp'.user \in Admins]_vars

\* a patient has asked to verify the payment of the own booking and was
\* refused: the payment still awaits verification
C16_Witness ==
    /\ resp.op = "verifyPayment" /\ resp.status = 403 /\ resp.user = "p1"
    /\ resp.id \in DOMAIN bookings
    /\ bookings[resp.id].patientId = "p1"
    /\ bookings[resp.id].paymentStatus = "paid_unverified"

----------------------------------------------------------------------------
(* Properties of the booking desk *)

\* C17: every stored booking has exactly one identity: a patientId and no
\* guestName, or a guestName and no patientId; and it has a phone.
C17_OneIdentity ==
    \A b \in DOMAIN bookings :
       /\ \/ bookings[b].patientId # NULL /\ bookings[b].guestName = NULL
          \/ bookings[b].patientId = NULL /\ bookings[b].guestName # NULL
       /\ ~Falsy(bookings[b].phone)

\* C18: every stored booking has a non-empty list of test ids, each the id of
\* a test of the catalog: a request with an empty list or an unknown id
\* creates no booking.
C18_TestsExist ==
    \A b \in DOMAIN bookings :
       /\ bookings[b].testIds # {}
       /\ bookings[b].testIds \subseteq Tests

----------------------------------------------------------------------------
(* Properties of the fulfilment status *)

\* C19: updateStatus accepts exactly pending, collected, processing,
\* report_ready and delivered, whatever the booking's current status, and
\* stores the value verbatim; any other value is rejected and leaves the status
\* as it is; a booking that does not exist is answered 404.
C19_StatusValues ==
    [][\A token \in AdminTokens, id \in AdminBookingIds, status \in AdminStatuses :
          UpdateStatus(token, id, status) =>
             IF id \notin DOMAIN bookings
             THEN resp'.status = 404 /\ bookings' = bookings
             ELSE IF status \in bookingStatuses
             THEN resp'.status = 200 /\ bookings'[id].status = status
             ELSE resp'.status # 200 /\ bookings' = bookings]_vars

\* every payment field of a booking
AllPaymentFields(booking) ==
    <<booking.paymentMethod, booking.paymentStatus, booking.transactionId,
      booking.amountPaid, booking.paymentDate, booking.paymentVerifiedAt,
      booking.paymentVerifiedBy>>

\* C20: fulfilment status and payment state are independent: updateStatus
\* leaves every payment field of every booking as it is, and verifyPayment and
\* recordPatientPayment leave the fulfilment status of every booking as it is.
C20_Independent ==
    [][/\ Answers("updateStatus") =>
             \A b \in DOMAIN bookings :
                /\ b \in DOMAIN bookings'
                /\ AllPaymentFields(bookings'[b]) = AllPaymentFields(bookings[b])
       /\ (Answers("verifyPayment") \/ Answers("recordPatientPayment")) =>
             \A b \in DOMAIN bookings :
                /\ b \in DOMAIN bookings'
                /\ bookings'[b].status = bookings[b].status]_vars

\* a payment has been verified on a booking whose sample was collected before:
\* the booking is still collected, and its payment record is the patient's
C20_Witness ==
    /\ resp.op = "verifyPayment" /\ resp.status = 200
    /\ resp.id \in DOMAIN bookings
    /\ bookings[resp.id].status = "collected"
    /\ bookings[resp.id].paymentStatus = "verified"
    /\ bookings[resp.id].transactionId = "UPI123"

----------------------------------------------------------------------------
(* Properties of the report issuer *)

\* a request body of generateReport lacks a required field
MissingReportField(body) ==
    \/ Falsy(body.patientId) \/ Falsy(body.testId) \/ Falsy(body.technician)
    \/ body.parameterResults = NoList

\* the reports of a result
ReportsOf(resultId) == {r \in DOMAIN reports : reports[r].resultId = resultId}

----------------------------------------------------------------------------
(* Properties of the registry *)

\* C22: after any sequence of patient-creating requests (register-email, legacy
\* register, firebase-register, admin create patient) no two patient records
\* carry the same non-null email.
C22_EmailUnique ==
    \A p \in DOMAIN patients, q \in DOMAIN patients :
        (p # q /\ patients[p].email # NULL) => patients[p].email # patients[q].email

----------------------------------------------------------------------------
(* Properties of the report form *)

\* a decimal number in the usual notation from position i of s: an optional
\* minus, digits, and after a dot at least one more digit
RefNumberAt(s, i) ==
    LET negative == i <= Len(s) /\ s[i] = "-"
        j == IF negative THEN i + 1 ELSE i
        whole == DigitRun(s, j)
        frac == IF j + whole <= Len(s) /\ s[j + whole] = "."
                THEN DigitRun(s, j + whole + 1) ELSE 0
        magnitude == DigitsValue(s, j, whole) * Pow10(frac)
                        + DigitsValue(s, j + whole + 1, frac)
    IN  [found |-> whole > 0,
         number |-> Decimal(IF negative THEN 0 - magnitude ELSE magnitude, frac),
         next |-> j + whole + (IF frac > 0 THEN 1 + frac ELSE 0)]

\* the position after the white space from position i
SkipSpace(s, i) == i + SpaceRun(s, i)

\* the number the whole of s writes, white space around it aside: none or one
RefNumber(s) ==
    LET n == RefNumberAt(s, SkipSpace(s, 1))
    IN  IF n.found /\ SkipSpace(s, n.next) = Len(s) + 1 THEN {n.number} ELSE {}

\* the bounds of 'lo-hi': none or one pair
RefRange(s) ==
    LET lo == RefNumberAt(s, SkipSpace(s, 1))
        dash == SkipSpace(s, lo.next)
        hi == RefNumberAt(s, SkipSpace(s, dash + 1))
    IN  IF /\ lo.found
           /\ dash <= Len(s) /\ s[dash] = "-"
           /\ hi.found
           /\ SkipSpace(s, hi.next) = Len(s) + 1
        THEN {<<lo.number, hi.number>>} ELSE {}

\* the N of '<N' or '>N': none or one
RefBound(s, sign) ==
    LET at == SkipSpace(s, 1)
        n == RefNumberAt(s, SkipSpace(s, at + 1))
    IN  IF /\ at <= Len(s) /\ s[at] = sign
           /\ n.found
           /\ SkipSpace(s, n.next) = Len(s) + 1
        THEN {n.number} ELSE {}

\* the reference rule
RefAbnormal(value, normalRange) ==
    \E v \in RefNumber(value) :
        \/ \E range \in RefRange(normalRange) : Less(v, range[1]) \/ Less(range[2], v)
        \/ \E n \in RefBound(normalRange, "<") : ~Less(v, n)
        \/ \E n \in RefBound(normalRange, ">") : ~Less(n, v)

\* C23: the flag isValueAbnormal computes for a value and a normal range is
\* the reference rule's: for 'lo-hi' abnormal iff value < lo or value > hi, for
\* '<N' iff value >= N, for '>N' iff value <= N, and false for a non-numeric
\* or empty value and for an unparseable range.
C23_AbnormalRule ==
    \A i \in 1..Len(parameterInputs) :
        parameterInputs[i].isAbnormal
            <=> RefAbnormal(parameterInputs[i].value, parameterInputs[i].normalRange)

----------------------------------------------------------------------------
(* Properties of the report shelf *)

\* C24: in the patient's listing a report that carries a booking reference is
\* disclosed according to the payment status of that booking and of no other:
\* the fallback to a booking of the patient with the result's test is used only
\* for a report without a booking reference.
C24_OwnBookingDecides ==
    \A r \in DOMAIN listing :
        reports[r].bookingId # NULL =>
            /\ listing[r].paymentStatus = bookings[reports[r].bookingId].paymentStatus
            /\ listing[r].paymentVerified = PaymentVerified(reports[r].bookingId)

----------------------------------------------------------------------------
(* Properties of the notification sink *)

\* a code was stored for the contact and purpose in this step, and nothing
\* else changed in the table of codes
Stored(contact, otp, purpose, minutes) ==
    \E o \in DOMAIN otps' \ DOMAIN otps :
        /\ otps' = otps @@ (o :> otps'[o])
        /\ otps'[o].contact = contact /\ otps'[o].otp = otp /\ otps'[o].purpose = purpose
        /\ otps'[o].attempts = 0 /\ otps'[o].expiresAt = now + minutes

\* the code left the server, by mail or in the log
HandedOut(contact, otp, purpose) ==
    /\ Len(outbox') = Len(outbox) + 1
    /\ outbox'[Len(outbox')].contact = contact
    /\ outbox'[Len(outbox')].otp = otp
    /\ outbox'[Len(outbox')].purpose = purpose

\* the request got as far as issuing a code
Issues == issued' # issued

\* C25: whatever the mail transport does (deliver, fail, or be unconfigured),
\* sendOtpEmail does not throw, and register-email, resend-verification and
\* forgot-password answer 200 with their usual body, with the code stored and
\* the patient rows as the request leaves them when the mail is delivered.
C25_NotificationNeverFatal ==
    [][\A transport \in Transports, otp \in Codes :
          /\ sendOtpEmail(transport) # "thrown"
          /\ \A body \in MailBodies :
                RegisterEmail(body, otp, transport) /\ Issues =>
                   /\ resp'.status = 200 /\ resp'.requiresVerification
                   /\ resp'.msg = "Registration successful. Please verify your email."
                   /\ Stored(body.email, otp, "email_verification", VerificationMinutes)
                   /\ HandedOut(body.email, otp, "email_verification")
                   /\ \E p \in DOMAIN patients' \ DOMAIN patients :
                         patients' = patients @@
                            (p :> NewPatient(body.email, body.phone,
                                             bcryptHash(body.password), NULL))
          /\ \A email \in RegEmails :
                ResendVerification(email, otp, transport) /\ Issues =>
                   /\ resp'.status = 200
                   /\ resp'.msg = "Verification OTP sent successfully"
                   /\ Stored(email, otp, "email_verification", VerificationMinutes)
                   /\ HandedOut(email, otp, "email_verification")
                   /\ patients' = patients
          /\ \A email \in RegEmails :
                ForgotPassword(email, otp, transport) /\ Issues =>
                   /\ resp'.status = 200 /\ resp'.msg = ResetMessage
                   /\ Stored(email, otp, "password_reset", ResetMinutes)
                   /\ HandedOut(email, otp, "password_reset")
                   /\ patients' = patients]_vars

\* a registration answered 200 whose code went to the log, not to the mailbox
C25_Witness ==
    /\ resp.op = "registerEmail" /\ resp.status = 200
    /\ outbox # <<>>
    /\ outbox[Len(outbox)].via = "logged"
    /\ outbox[Len(outbox)].purpose = "email_verification"
    /\ \E o \in DOMAIN otps : otps[o].contact = resp.email /\ otps[o].otp = outbox[Len(outbox)].otp

----------------------------------------------------------------------------
(* Properties of the verification desk *)

Succeeded(q) ==
    q \in DOMAIN requests /\ requests[q].pc = "answered" /\ requests[q].status = 200

\* C26: of the verify-payment requests for one booking whose reads and writes
\* interleave, at most one is answered 200 and every other one that reached
\* the booking is answered 400; the verifying admin and the time are those
\* the one successful request wrote.
C26_AtMostOneVerifies ==
    /\ Cardinality({q \in RaceRequests : Succeeded(q)}) <= 1
    /\ \A q \in RaceRequests :
          Succeeded(q) =>
             /\ bookings["b1"].paymentVerifiedBy = requests[q].user
             /\ \A other \in DOMAIN requests \ {q} :
                   requests[other].pc = "answered" => requests[other].status # 200

\* C27: forgot-password answers a request for an email no patient has exactly
\* as it answers one for a registered email, with status 200 and the same
\* body, whatever the state; a password_reset code is created if and only if
\* a patient has the email.
C27_NoEnumeration ==
    [][\A email \in RegEmails, otp \in Codes, transport \in Transports :
          ForgotPassword(email, otp, transport) =>
             /\ resp' = Response("forgotPassword", 200, ResetMessage, email, NULL)
             /\ (otps' # otps) <=> (getPatientByEmail(email) # {})
             /\ \A o \in DOMAIN otps' \ DOMAIN otps :
                   otps'[o].purpose = "password_reset" /\ otps'[o].contact = email]_vars

\* a request for an unregistered email was answered in a run in which one for
\* a registered email had created a code
C27_Witness ==
    /\ resp.op = "forgotPassword" /\ resp.status = 200
    /\ getPatientByEmail(resp.id) = {}
    /\ \E o \in DOMAIN otps :
          otps[o].purpose = "password_reset" /\ getPatientByEmail(otps[o].contact) # {}

----------------------------------------------------------------------------
(* Further properties of the payment ledger *)

\* C28: a booking that is paid_unverified comes to a payment status that
\* permits the download of its reports (verified, cash_on_delivery,
\* pay_at_lab) only in a step in which an admin's verifyPayment on that
\* booking is answered 200; no request of a patient takes it there.
C28_PatientCannotUnlock ==
    [][\A id \in DOMAIN bookings :
          (bookings[id].paymentStatus = "paid_unverified"
              /\ bookings'[id].paymentStatus \in allowedPaymentStatuses) =>
             /\ resp'.op = "verifyPayment" /\ resp'.status = 200
             /\ resp'.id = id /\ resp'.user \in Admins]_vars

\* C30: a booking that carries a verifying admin or a verification time has
\* paymentStatus verified, also after its patient recorded a payment on it
\* once it was verified.
C30_VerifiedMetadata ==
    \A id \in DOMAIN bookings :
        (bookings[id].paymentVerifiedBy # NULL \/ bookings[id].paymentVerifiedAt # NoTime) =>
            bookings[id].paymentStatus = "verified"

----------------------------------------------------------------------------
(* Properties of the guessing room *)

\* the requests whose code has been compared with the code of the record
ComparedWith(id) ==
    {q \in DOMAIN requests : /\ requests[q].op = "verifyEmail"
                             /\ requests[q].pc = "answered"
                             /\ requests[q].compared
                             /\ requests[q].otpRecord = id}

\* C29: for one email_verification record, whatever the interleaving of the
\* reads, increments and comparisons of concurrent verify-email requests, at
\* most 3 requests have their code compared with the stored code and the
\* attempts counter is at most 3.
C29_AttemptsBounded ==
    /\ \A id \in DOMAIN otps : otps[id].attempts <= MaxAttempts
    /\ Cardinality(ComparedWith("o1")) <= MaxAttempts

====
